---- MODULE Spec2Model ----
(***************************************************************************)
(* Model of the in-memory PDF session cache (src/infrastructure/           *)
(* pdf_cache.py), of the cache routes that call it (src/presentation/      *)
(* pdf_routes.py) and of the page classification cascade                   *)
(* (src/infrastructure/pdf_page_classifier.py).                            *)
(*                                                                         *)
(* Time is time.time() in whole seconds.  Byte strings are abstracted to   *)
(* a content tag and their length; lengths are real byte counts.  The      *)
(* registry is a Python dict, modelled as the sequence of its items in     *)
(* insertion order (the order min() and items() iterate in).  Code that    *)
(* runs under self._cache_lock is one atomic step; code that runs before   *)
(* the lock is taken (store's uuid4()/time.time(), the sweep's             *)
(* time.time()) is a step of its own, so other threads interleave between  *)
(* the two.                                                                *)
(***************************************************************************)
EXTENDS Integers, Sequences, FiniteSets, TLC

VARIABLES
    cache,       \* PdfCache._cache: sequence of CacheEntry items, insertion order
    clock,       \* the value time.time() returns now
    ticks,       \* how many times the clock has advanced (bounds the model)
    issued,      \* the ids uuid.uuid4() has handed out so far
    pending,     \* the store() calls that hold their entry and wait for the lock
    sweep_pc,    \* the cleanup thread: "sleep" or "lock" (now read, lock not yet taken)
    sweep_now,   \* the cleanup pass's local `now`
    last,        \* history: the outcome of the operation that completed last
    workers,     \* the request threads of this run (fixed by the initial state)
    history,     \* whether this run keeps `last` (fixed by the initial state)
    doc,         \* classify_pdf: the document, a sequence of page texts
    cls_pc,      \* classify_pdf: "idle", "index", "title", "visual" or "done"
    result,      \* classify_pdf: the local `result`
    pixmaps,     \* _classify_by_visual: the `pix` of each page, once rendered
    lock,        \* PdfCache._cache_lock: the thread that holds it, or "free"
    pc,          \* step by step: where each thread is in the method it runs
    frame,       \* step by step: the locals of the call each thread is in
    _instance,   \* PdfCache._instance: "None" or "obj", the one object made
    _initialized,    \* the object's _initialized: "unset", "False" or "True"
    _lock,       \* PdfCache._lock: the thread that holds it, or "free"
    _cleanup_thread, \* the object's _cleanup_thread: "unset", "None", "alive"
    ctor_pc,     \* where each thread is in PdfCache()
    imported,    \* the import of the module pdf_cache has completed
    created,     \* how many objects super().__new__ has made
    registries,  \* how many times line 61 has given the object a new dict
    started,     \* how many cleanup threads were started
    constructions    \* how many times PdfCache() was called

config == <<workers, history>>

singleton_vars == <<_instance, _initialized, _lock, _cleanup_thread, ctor_pc,
                    imported, created, registries, started, constructions>>

lock_vars == <<lock, pc, frame, singleton_vars>>

cache_vars == <<cache, clock, ticks, issued, pending, sweep_pc, sweep_now,
                last, config, lock_vars>>

classifier_vars == <<doc, cls_pc, result, pixmaps>>

vars == <<cache_vars, classifier_vars>>

-----------------------------------------------------------------------------
(* Program constants *)

MiB == 1024 * 1024

DEFAULT_TTL_SECONDS == 30 * 60

MAX_CACHE_SIZE_BYTES == 500 * MiB

(* Bounds of the model *)

\* uuid4() is called at most MaxStores times (store() calls that pass the size check)
MaxStores == 3

\* the clock advances at most MaxTicks times
MaxTicks == 2

\* request-handling threads: at most that many store() calls are in flight
Threads == {"t1", "t2"}

\* the request threads of the runs that keep the history variable
OneThread == {"t1"}

\* amounts by which the clock advances in one step
TickSteps == {1, DEFAULT_TTL_SECONDS}

\* the calls store(pdf_bytes, total_pages) is made with: tag identifies the
\* content of the byte string, len is len(pdf_bytes)
StoreInputs ==
    { [pdf_bytes |-> [tag |-> "a", len |-> 250 * MiB], total_pages |-> 1],
      [pdf_bytes |-> [tag |-> "b", len |-> MAX_CACHE_SIZE_BYTES], total_pages |-> 2],
      [pdf_bytes |-> [tag |-> "c", len |-> MAX_CACHE_SIZE_BYTES + 1], total_pages |-> 3] }

\* by how much the clock advances between get's two time.time() calls
GetDelays == {0, 1}

\* session ids: what uuid4() draws from, and what a caller may present
SessionIds == 1 .. MaxStores

-----------------------------------------------------------------------------
(* CacheEntry and the dict.  An item of the dict is [key, value]: the      *)
(* session id and its CacheEntry.                                           *)

\* CacheEntry built with total_pages and created_at in each other's place
CacheEntry_swapped(pdf_bytes, total_pages, created_at, last_accessed) ==
    [ pdf_bytes     |-> pdf_bytes,
      total_pages   |-> created_at,
      created_at    |-> total_pages,
      last_accessed |-> last_accessed ]

CacheEntry(pdf_bytes, total_pages, created_at, last_accessed) ==
    [ pdf_bytes     |-> pdf_bytes,
      total_pages   |-> total_pages,
      created_at    |-> created_at,
      last_accessed |-> last_accessed ]

size_bytes(entry) == entry.pdf_bytes.len

Item(key, value) == [key |-> key, value |-> value]

\* the elements of a sequence
Range(seq) == { seq[i] : i \in 1 .. Len(seq) }

Keys(c) == { c[i].key : i \in 1 .. Len(c) }

\* position of the key in the dict, 0 when absent
IndexOf(c, key) ==
    IF key \in Keys(c) THEN CHOOSE i \in 1 .. Len(c) : c[i].key = key ELSE 0

\* del d[k] / d.pop(k): the other items keep their order
DictDel(c, key) == SelectSeq(c, LAMBDA item : item.key # key)

\* d[k] = v: a present key keeps its place, a new key goes last
DictSet(c, key, value) ==
    IF key \in Keys(c)
    THEN [ i \in 1 .. Len(c) |-> IF c[i].key = key THEN Item(key, value) ELSE c[i] ]
    ELSE Append(c, Item(key, value))

RECURSIVE SumSizes(_)
SumSizes(c) ==
    IF c = <<>> THEN 0 ELSE size_bytes(Head(c).value) + SumSizes(Tail(c))

_get_total_size(c) == SumSizes(c)

-----------------------------------------------------------------------------
(* PdfCache: the code that runs under self._cache_lock, as functions of the *)
(* dict                                                                     *)

\* OldestIndex that takes the first key of the dict: the entry inserted first
OldestIndex_fifo(c) == 1

\* OldestIndex that takes the last minimum in dict order: of the entries that
\* share the oldest last_accessed, the one inserted last
OldestIndex_last_tie(c) ==
    CHOOSE i \in 1 .. Len(c) :
        /\ \A j \in 1 .. Len(c) :
              c[i].value.last_accessed <= c[j].value.last_accessed
        /\ \A j \in (i + 1) .. Len(c) :
              c[j].value.last_accessed > c[i].value.last_accessed

\* min(self._cache.keys(), key=last_accessed): the first minimum in dict order
OldestIndex(c) ==
    CHOOSE i \in 1 .. Len(c) :
        /\ \A j \in 1 .. Len(c) :
              c[i].value.last_accessed <= c[j].value.last_accessed
        /\ \A j \in 1 .. (i - 1) :
              c[j].value.last_accessed > c[i].value.last_accessed

_evict_oldest(c) ==
    IF c = <<>> THEN c ELSE DictDel(c, c[OldestIndex(c)].key)

\* EvictLoop with `if` for `while`: at most one entry is evicted
EvictLoop_once(c, pdf_size) ==
    IF _get_total_size(c) + pdf_size > MAX_CACHE_SIZE_BYTES
    THEN _evict_oldest(c)
    ELSE c

\* store's loop: while self._get_total_size() + pdf_size > MAX: self._evict_oldest()
RECURSIVE EvictLoop(_, _)
EvictLoop(c, pdf_size) ==
    IF _get_total_size(c) + pdf_size > MAX_CACHE_SIZE_BYTES
    THEN EvictLoop(_evict_oldest(c), pdf_size)
    ELSE c

\* the items the loop pops, in the order _evict_oldest logs them
RECURSIVE EvictLog(_, _)
EvictLog(c, pdf_size) ==
    IF _get_total_size(c) + pdf_size > MAX_CACHE_SIZE_BYTES /\ c # <<>>
    THEN <<c[OldestIndex(c)]>> \o EvictLog(_evict_oldest(c), pdf_size)
    ELSE <<>>

\* StoreRejects that lets every document pass
StoreRejects_never(pdf_bytes) == FALSE

\* StoreRejects with >= for >: a document of exactly the limit is refused
StoreRejects_at_limit(pdf_bytes) == pdf_bytes.len >= MAX_CACHE_SIZE_BYTES

\* store, line 139: the size check that raises ValueError
StoreRejects(pdf_bytes) == pdf_bytes.len > MAX_CACHE_SIZE_BYTES

\* store, lines 155-160: the critical section
StoreLocked(c, session_id, entry) ==
    DictSet(EvictLoop(c, size_bytes(entry)), session_id, entry)

\* IsExpired with >= for >: an age of exactly the TTL counts as expired
IsExpired_at_ttl(entry, now) == now - entry.last_accessed >= DEFAULT_TTL_SECONDS

\* get, line 186, and _cleanup_expired, line 96: the expiry test
IsExpired(entry, now) == now - entry.last_accessed > DEFAULT_TTL_SECONDS

\* get that stamps every entry of the dict with the time of the access
get_touches_all(c, session_id, t1, t2) ==
    LET i == IndexOf(c, session_id) IN
    IF i = 0
    THEN [cache |-> c, ret |-> <<>>, expired |-> <<>>]
    ELSE IF IsExpired(c[i].value, t1)
    THEN [cache |-> DictDel(c, session_id), ret |-> <<>>, expired |-> <<c[i]>>]
    ELSE LET touched == [c[i].value EXCEPT !.last_accessed = t2] IN
         [cache |-> [ k \in 1 .. Len(c) |->
                        [c[k] EXCEPT !.value.last_accessed = t2] ],
          ret |-> <<touched>>, expired |-> <<>>]

\* get that answers None for an expired session and leaves it in the dict
get_keeps_expired(c, session_id, t1, t2) ==
    LET i == IndexOf(c, session_id) IN
    IF i = 0
    THEN [cache |-> c, ret |-> <<>>, expired |-> <<>>]
    ELSE IF IsExpired(c[i].value, t1)
    THEN [cache |-> c, ret |-> <<>>, expired |-> <<c[i]>>]
    ELSE LET touched == [c[i].value EXCEPT !.last_accessed = t2] IN
         [cache |-> DictSet(c, session_id, touched), ret |-> <<touched>>,
          expired |-> <<>>]

\* get, lines 179-194; t1 and t2 are the two time.time() readings.
\* Result: the dict afterwards, the returned entry (<<>> is None) and the
\* item logged as expired, if any.
get(c, session_id, t1, t2) ==
    LET i == IndexOf(c, session_id) IN
    IF i = 0
    THEN [cache |-> c, ret |-> <<>>, expired |-> <<>>]
    ELSE IF IsExpired(c[i].value, t1)
    THEN [cache |-> DictDel(c, session_id), ret |-> <<>>, expired |-> <<c[i]>>]
    ELSE LET touched == [c[i].value EXCEPT !.last_accessed = t2] IN
         [cache |-> DictSet(c, session_id, touched), ret |-> <<touched>>,
          expired |-> <<>>]

\* delete that returns True whether or not the session was there
delete_always_true(c, session_id) ==
    [cache |-> DictDel(c, session_id), ret |-> TRUE]

\* delete, lines 206-211
delete(c, session_id) ==
    IF session_id \in Keys(c)
    THEN [cache |-> DictDel(c, session_id), ret |-> TRUE]
    ELSE [cache |-> c, ret |-> FALSE]

\* get_stats, lines 215-222: <<active_sessions, total_size_bytes>>
get_stats(c) == <<Len(c), _get_total_size(c)>>

\* _cleanup_expired, lines 95-97: the sessions one pass collects
ExpiredSessions(c, now) ==
    SelectSeq(c, LAMBDA item : IsExpired(item.value, now))

\* SweepLocked that also drops the sessions whose age is exactly the TTL
SweepLocked_at_ttl(c, now) ==
    SelectSeq(c, LAMBDA item : ~ IsExpired_at_ttl(item.value, now))

\* _cleanup_expired, lines 99-100: the dict after the pass
SweepLocked(c, now) ==
    SelectSeq(c, LAMBDA item : item \notin Range(ExpiredSessions(c, now)))

\* uuid4 that repeats itself: the number of live sessions plus one
uuid4_of_size == Len(cache) + 1

\* uuid.uuid4(): a value no earlier call returned (of those, the least: which
\* one it is makes no difference to the code)
uuid4 ==
    CHOOSE id \in SessionIds \ issued : \A other \in SessionIds \ issued : id <= other

-----------------------------------------------------------------------------
(* PdfPageClassifier.                                                       *)
(* A page is its extracted text, upper-cased, reduced to what the code      *)
(* tests of it: whether it contains a keyword of INDEX_KEYWORDS,            *)
(* PID_KEYWORDS, LAYOUT_KEYWORDS, and the descriptions the index pattern    *)
(* matches on it that are longer than 5 characters.  A description is       *)
(* reduced to the keyword lists it has a keyword of.  None is 0 for a page  *)
(* number.                                                                  *)

\* _find_and_parse_index, line 136: range(min(5, len(doc)))
IndexScanPages == 5

\* documents have 1 .. MaxPages pages
MaxPages == 3

Name(pid, legend, layout) == [pid |-> pid, legend |-> legend, layout |-> layout]

\* descriptions on index pages
SchematicName == Name(TRUE, FALSE, FALSE)   \* "MECHANICAL PIPEWORK SCHEMATICS"
LegendName == Name(FALSE, TRUE, FALSE)      \* "SYMBOLS AND LEGEND"
LayoutName == Name(FALSE, FALSE, TRUE)      \* "PLANTROOM LAYOUT"
PlainName == Name(FALSE, FALSE, FALSE)      \* "GENERAL NOTES"

\* the lists of descriptions an index page may hold
NameLists ==
    { <<>>, <<SchematicName>>, <<LegendName>>, <<LayoutName, PlainName>>,
      <<LegendName, SchematicName>> }

PageText(is_index, is_pid, is_layout, names) ==
    [is_index |-> is_index, is_pid |-> is_pid, is_layout |-> is_layout,
     names |-> names]

\* a page's text contains the keywords its descriptions contain; descriptions
\* are read only from pages with an index keyword
PageTexts ==
    { PageText(i, p, l, n) : i \in BOOLEAN, p \in BOOLEAN, l \in BOOLEAN,
                             n \in NameLists } \cap
    { t \in [is_index : BOOLEAN, is_pid : BOOLEAN, is_layout : BOOLEAN,
             names : NameLists] :
        /\ ~ t.is_index => t.names = <<>>
        /\ \A k \in 1 .. Len(t.names) :
              /\ t.names[k].pid => t.is_pid
              /\ t.names[k].layout => t.is_layout }

Documents == UNION { [1 .. n -> PageTexts] : n \in 1 .. MaxPages }

ClassificationResult(total_pages, index_page, pid_pages, layout_pages, unknown_pages, method_used) ==
    [ total_pages   |-> total_pages,
      index_page    |-> index_page,
      pid_pages     |-> pid_pages,
      layout_pages  |-> layout_pages,
      unknown_pages |-> unknown_pages,
      method_used   |-> method_used ]

\* no result yet
NoResult == ClassificationResult(0, 0, <<>>, <<>>, <<>>, "none")

\* the numbers lo .. hi that are in S, in increasing order: a list built by
\* append in a loop that counts upwards
RECURSIVE Collect(_, _, _)
Collect(lo, hi, S) ==
    IF lo > hi THEN <<>>
    ELSE (IF lo \in S THEN <<lo>> ELSE <<>>) \o Collect(lo + 1, hi, S)

Min(a, b) == IF a < b THEN a ELSE b

\* _classify_by_name with the layout test before the legend test
_classify_by_name_layout_first(name) ==
    IF name.pid THEN "pid"
    ELSE IF name.layout THEN "layout"
    ELSE IF name.legend THEN "legend"
    ELSE "unknown"

\* _classify_by_name, lines 184-195
_classify_by_name(name) ==
    IF name.pid THEN "pid"
    ELSE IF name.legend THEN "legend"
    ELSE IF name.layout THEN "layout"
    ELSE "unknown"

\* _parse_index_page: the page_type of each description, in text order
_parse_index_page(text) ==
    [ k \in 1 .. Len(text.names) |-> _classify_by_name(text.names[k]) ]

\* _find_and_parse_index with range(len(doc)) for range(min(5, len(doc))):
\* every page is scanned
_find_and_parse_index_all_pages(d) ==
    LET hits == { n \in 1 .. Len(d) :
                    d[n].is_index /\ _parse_index_page(d[n]) # <<>> }
    IN IF hits = {}
       THEN [index_page |-> 0, entries |-> <<>>]
       ELSE LET n == CHOOSE m \in hits : \A o \in hits : m <= o
            IN [index_page |-> n, entries |-> _parse_index_page(d[n])]

\* _find_and_parse_index: the first of the first five pages that has an index
\* keyword and yields entries; index_page 0 with no entries when there is none
_find_and_parse_index(d) ==
    LET hits == { n \in 1 .. Min(IndexScanPages, Len(d)) :
                    d[n].is_index /\ _parse_index_page(d[n]) # <<>> }
    IN IF hits = {}
       THEN [index_page |-> 0, entries |-> <<>>]
       ELSE LET n == CHOOSE m \in hits : \A o \in hits : m <= o
            IN [index_page |-> n, entries |-> _parse_index_page(d[n])]

\* _classify_from_index without the break at line 220: entries past the last
\* page are listed too
_classify_from_index_no_break(total_pages, index_page, entries) ==
    LET first_page == index_page + 1
        last_page == index_page + Len(entries)
        TypeOf(page_num) == entries[page_num - index_page]
        OfType(types) == { n \in first_page .. last_page : TypeOf(n) \in types }
    IN ClassificationResult(
           total_pages, index_page,
           Collect(first_page, last_page, OfType({"pid"})),
           Collect(first_page, last_page, OfType({"layout"})),
           Collect(first_page, last_page, OfType({"unknown", "index"})),
           "index")

\* _classify_from_index with `else` for the `elif` at line 226: a legend
\* entry's page is listed as unknown
_classify_from_index_legend_unknown(total_pages, index_page, entries) ==
    LET first_page == index_page + 1
        last_page == Min(total_pages, index_page + Len(entries))
        TypeOf(page_num) == entries[page_num - index_page]
        OfType(types) == { n \in first_page .. last_page : TypeOf(n) \in types }
    IN ClassificationResult(
           total_pages, index_page,
           Collect(first_page, last_page, OfType({"pid"})),
           Collect(first_page, last_page, OfType({"layout"})),
           Collect(first_page, last_page, OfType({"unknown", "index", "legend"})),
           "index")

\* _classify_from_index: entry i (0-based) is page index_page + 1 + i, the loop
\* stops at the first page past total_pages
_classify_from_index(total_pages, index_page, entries) ==
    LET first_page == index_page + 1
        last_page == Min(total_pages, index_page + Len(entries))
        TypeOf(page_num) == entries[page_num - index_page]
        OfType(types) == { n \in first_page .. last_page : TypeOf(n) \in types }
    IN ClassificationResult(
           total_pages, index_page,
           Collect(first_page, last_page, OfType({"pid"})),
           Collect(first_page, last_page, OfType({"layout"})),
           Collect(first_page, last_page, OfType({"unknown", "index"})),
           "index")

\* _classify_by_page_titles with `if` for the `elif` at line 262: a page with an
\* index keyword is classified like the others as well
_classify_by_page_titles_index_listed(d) ==
    LET index_pages == { n \in 1 .. Len(d) : d[n].is_index }
    IN ClassificationResult(
           Len(d),
           IF index_pages = {} THEN 0
           ELSE CHOOSE m \in index_pages : \A o \in index_pages : o <= m,
           Collect(1, Len(d), { n \in 1 .. Len(d) : d[n].is_pid }),
           Collect(1, Len(d), { n \in 1 .. Len(d) :
               ~ d[n].is_pid /\ d[n].is_layout }),
           Collect(1, Len(d), { n \in 1 .. Len(d) :
               ~ d[n].is_pid /\ ~ d[n].is_layout }),
           "title")

\* _classify_by_page_titles with the branch at lines 266-268 appending to
\* layout_pages: a page with both keywords is a layout
_classify_by_page_titles_layout_first(d) ==
    LET index_pages == { n \in 1 .. Len(d) : d[n].is_index }
    IN ClassificationResult(
           Len(d),
           IF index_pages = {} THEN 0
           ELSE CHOOSE m \in index_pages : \A o \in index_pages : o <= m,
           Collect(1, Len(d), { n \in 1 .. Len(d) :
               ~ d[n].is_index /\ d[n].is_pid /\ ~ d[n].is_layout }),
           Collect(1, Len(d), { n \in 1 .. Len(d) :
               ~ d[n].is_index /\ d[n].is_layout }),
           Collect(1, Len(d), { n \in 1 .. Len(d) :
               ~ d[n].is_index /\ ~ d[n].is_pid /\ ~ d[n].is_layout }),
           "title")

\* _classify_by_page_titles
_classify_by_page_titles(d) ==
    LET index_pages == { n \in 1 .. Len(d) : d[n].is_index }
    IN ClassificationResult(
           Len(d),
           IF index_pages = {} THEN 0
           ELSE CHOOSE m \in index_pages : \A o \in index_pages : o <= m,
           Collect(1, Len(d), { n \in 1 .. Len(d) :
               ~ d[n].is_index /\ d[n].is_pid }),
           Collect(1, Len(d), { n \in 1 .. Len(d) :
               ~ d[n].is_index /\ ~ d[n].is_pid /\ d[n].is_layout }),
           Collect(1, Len(d), { n \in 1 .. Len(d) :
               ~ d[n].is_index /\ ~ d[n].is_pid /\ ~ d[n].is_layout }),
           "title")

-----------------------------------------------------------------------------
(* Renderings.  A pixmap is its width, height and n (bytes per pixel, 3 for *)
(* the RGB rendering get_pixmap makes) and the colours of its pixels, row   *)
(* after row: the first `lead` pixels have the colour `first`, and of the   *)
(* others those at an even position (from 0) have the colour `even` and     *)
(* those at an odd position the colour `odd`.  pix.samples is the bytes of  *)
(* the pixels one after the other, indexed from 0.                          *)

Black == <<0, 0, 0>>
White == <<255, 255, 255>>
MidRed == <<200, 40, 40>>    \* a saturated colour of medium brightness
PureRed == <<255, 0, 0>>     \* a saturated colour at full brightness

Pixmap(width, height, lead, first, even, odd) ==
    [ width |-> width, height |-> height, n |-> 3,
      lead |-> lead, first |-> first, even |-> even, odd |-> odd ]

\* the colour of pixel j (from 0)
PixelOf(pix, j) ==
    IF j < pix.lead THEN pix.first
    ELSE IF j % 2 = 0 THEN pix.even ELSE pix.odd

\* pix.samples
Samples(pix) ==
    [ i \in 0 .. (pix.width * pix.height * pix.n - 1) |->
        PixelOf(pix, i \div pix.n)[(i % pix.n) + 1] ]

\* the renderings a page may have
Pixmaps ==
    { Pixmap(5, 4, 0, Black, Black, White),     \* black and white
      Pixmap(5, 4, 3, MidRed, Black, White),    \* 3 of 20 pixels coloured
      Pixmap(5, 4, 4, MidRed, Black, White),    \* 4 of 20 pixels coloured
      Pixmap(5, 4, 0, MidRed, MidRed, MidRed),  \* coloured all over
      Pixmap(5, 4, 0, PureRed, PureRed, PureRed),   \* pure red all over
      Pixmap(50, 40, 2, MidRed, White, MidRed) }    \* 2000 pixels, 1001 coloured

\* colours at the limits of line 361: a spread of 50 and of 51, a brightest
\* channel of 229 and of 230, of 50 and of 51, each channel the brightest
\* once, full brightness, grey
BoundaryColours ==
    { <<100, 50, 50>>, <<100, 49, 49>>, <<229, 100, 100>>, <<230, 100, 100>>,
      <<50, 0, 0>>, <<51, 0, 0>>, <<40, 200, 40>>, <<40, 40, 229>>,
      <<255, 0, 0>>, <<120, 120, 120>> }

\* renderings at the limits of _analyze_colors: 3 and 4 of 20 pixels in a
\* colour, all 20 in it, no pixel at all, and 2000 pixels of which every
\* second is sampled
ColorPixmaps ==
    { Pixmap(5, 4, lead, c, Black, White) : lead \in {3, 4}, c \in BoundaryColours }
    \cup { Pixmap(5, 4, 0, c, c, c) : c \in BoundaryColours }
    \cup { Pixmap(0, 0, 0, Black, Black, Black),
           Pixmap(50, 40, 2, MidRed, White, MidRed),
           Pixmap(50, 40, 0, MidRed, MidRed, White) }

\* page.get_pixmap raised: there is no pixmap
RenderError ==
    [ width |-> 0, height |-> 0, n |-> 0,
      lead |-> 0, first |-> <<>>, even |-> <<>>, odd |-> <<>> ]

Max3(r, g, b) ==
    IF r >= g /\ r >= b THEN r ELSE IF g >= b THEN g ELSE b

Min3(r, g, b) ==
    IF r <= g /\ r <= b THEN r ELSE IF g <= b THEN g ELSE b

\* _analyze_colors without the brightness test of line 361: every saturated
\* pixel counts
_analyze_colors_no_brightness(samples, width, height, n) ==
    LET len == Cardinality(DOMAIN samples)
        total_pixels == width * height
        sample_step == IF total_pixels \div 1000 > 1
                       THEN total_pixels \div 1000 ELSE 1
        checked == { i \in 0 .. (len - 1) :
                       i % (n * sample_step) = 0 /\ i + 2 < len }
        colorful == { i \in checked :
                        Max3(samples[i], samples[i + 1], samples[i + 2])
                        - Min3(samples[i], samples[i + 1], samples[i + 2]) > 50 }
    IN IF checked = {} THEN FALSE
       ELSE 100 * Cardinality(colorful) > 15 * Cardinality(checked)

\* _analyze_colors with >= for > at line 372: a share of exactly 15% counts
_analyze_colors_at_15(samples, width, height, n) ==
    LET len == Cardinality(DOMAIN samples)
        total_pixels == width * height
        sample_step == IF total_pixels \div 1000 > 1
                       THEN total_pixels \div 1000 ELSE 1
        checked == { i \in 0 .. (len - 1) :
                       i % (n * sample_step) = 0 /\ i + 2 < len }
        colorful == { i \in checked :
                        LET max_val == Max3(samples[i], samples[i + 1], samples[i + 2])
                            min_val == Min3(samples[i], samples[i + 1], samples[i + 2])
                            diff == max_val - min_val
                        IN diff > 50 /\ 30 < max_val /\ max_val < 230 }
    IN IF checked = {} THEN FALSE
       ELSE 100 * Cardinality(colorful) >= 15 * Cardinality(checked)

\* _analyze_colors, lines 340-372.  The loop visits the offsets 0, n * step,
\* 2 * n * step, ... and breaks at the first with i + 2 >= len(samples).
\* color_ratio > 0.15 is compared in whole numbers: no quotient of two counts
\* of this size is nearer to 3/20 than a double resolves.
_analyze_colors(samples, width, height, n) ==
    LET len == Cardinality(DOMAIN samples)
        total_pixels == width * height
        sample_step == IF total_pixels \div 1000 > 1
                       THEN total_pixels \div 1000 ELSE 1
        checked == { i \in 0 .. (len - 1) :
                       i % (n * sample_step) = 0 /\ i + 2 < len }
        colorful == { i \in checked :
                        LET max_val == Max3(samples[i], samples[i + 1], samples[i + 2])
                            min_val == Min3(samples[i], samples[i + 1], samples[i + 2])
                            diff == max_val - min_val
                        IN diff > 50 /\ 30 < max_val /\ max_val < 230 }
    IN IF checked = {} THEN FALSE
       ELSE 100 * Cardinality(colorful) > 15 * Cardinality(checked)

\* _classify_by_visual, lines 303-304: is_colorful for each rendering
is_colorful ==
    [ pix \in Pixmaps \cup ColorPixmaps |->
        _analyze_colors(Samples(pix), pix.width, pix.height, pix.n) ]

\* _classify_by_visual; colorful_page[n] is what _analyze_colors returns for the
\* rendering of page n
_classify_by_visual(d, colorful_page) ==
    ClassificationResult(
        Len(d), 0, <<>>,
        Collect(1, Len(d), { n \in 1 .. Len(d) : colorful_page[n] }),
        Collect(1, Len(d), { n \in 1 .. Len(d) : ~ colorful_page[n] }),
        "visual")

-----------------------------------------------------------------------------
(* The outcome of a completed operation *)

Outcome(op, sid, ok, status, req, out, stats) ==
    [ op     |-> op,      \* "store", "get", "delete", "stats", "sweep"
      sid    |-> sid,     \* the session id passed in, or the one store returned
      ok     |-> ok,      \* an id / an entry / True was returned
      status |-> status,  \* the HTTP status of the route that made the call
      req    |-> req,     \* store: <<pdf_bytes, total_pages>> as passed
      out    |-> out,     \* get: the item returned, or logged as expired;
                          \* store, sweep: the items logged as removed
      stats  |-> stats,   \* get_stats: <<active_sessions, total_size_bytes>>
      prev_op |-> "" ]    \* set by Record

\* `last` after the operation whose outcome is o; prev_op names the operation
\* completed just before when that one returned ok for the same session id
Record(o) ==
    last' = IF history
            THEN [o EXCEPT !.prev_op =
                     IF last.ok /\ last.sid = o.sid /\ o.sid # 0
                     THEN last.op ELSE ""]
            ELSE last

-----------------------------------------------------------------------------
(* Threads and their calls, statement by statement *)

\* the name of the cleanup thread
PdfCacheCleanup == "PdfCacheCleanup"

\* the request threads and the cleanup thread
LockThreads == Threads \cup {PdfCacheCleanup}

\* the thread that imports the module
MainThread == "MainThread"

\* the threads that may call PdfCache()
ConstructThreads == Threads \cup {MainThread}

\* the locals of a call; <<>> is None, and 0 a value not yet assigned
Frame(session_id, entry, now, called_at) ==
    [ session_id       |-> session_id,
      entry            |-> entry,       \* store: <<entry>>; get: <<entry>> or None
      now              |-> now,         \* the time.time() reading the call writes
      called_at        |-> called_at,   \* get: the clock when the call was made
      expired_sessions |-> <<>>,        \* _cleanup_expired: the keys collected
      active_sessions  |-> 0,           \* get_stats: len(self._cache)
      total_size_bytes |-> 0,           \* get_stats: first _get_total_size()
      total_size_mb    |-> 0,           \* get_stats: second _get_total_size()
      logged           |-> {} ]         \* the lines whose logger.info call was
                                        \* made with the lock held

NoFrame == Frame(0, <<>>, 0, 0)

-----------------------------------------------------------------------------
(* Actions of the cache *)

Registry(w, h) ==
    /\ cache = <<>>
    /\ clock = 0
    /\ ticks = 0
    /\ issued = {}
    /\ pending = {}
    /\ sweep_pc = "sleep"
    /\ sweep_now = 0
    /\ last = Outcome("none", 0, FALSE, 0, <<>>, <<>>, <<>>)
    /\ workers = w
    /\ history = h
    /\ doc = <<>>
    /\ cls_pc = "idle"
    /\ result = NoResult
    /\ pixmaps = <<>>
    /\ lock = "free"
    /\ pc = [t \in LockThreads |-> "idle"]
    /\ frame = [t \in LockThreads |-> NoFrame]

\* the module pdf_cache is about to be imported: no PdfCache was made yet
BeforeImport ==
    /\ _instance = "None"
    /\ _initialized = "unset"
    /\ _lock = "free"
    /\ _cleanup_thread = "unset"
    /\ ctor_pc = [t \in ConstructThreads |-> IF t = MainThread THEN "import" ELSE "idle"]
    /\ imported = FALSE
    /\ created = 0
    /\ registries = 0
    /\ started = 0
    /\ constructions = 0

\* the module pdf_cache was imported: line 226 has made the singleton
AfterImport ==
    /\ _instance = "obj"
    /\ _initialized = "True"
    /\ _lock = "free"
    /\ _cleanup_thread = "alive"
    /\ ctor_pc = [t \in ConstructThreads |-> "idle"]
    /\ imported = TRUE
    /\ created = 1
    /\ registries = 1
    /\ started = 1
    /\ constructions = 1

\* the process after `pdf_cache = PdfCache()`, line 226
Start(w, h) == Registry(w, h) /\ AfterImport

\* the process as the import of pdf_cache begins
InitImport == Registry(OneThread, FALSE) /\ BeforeImport

\* one store() in flight at a time, next to get, delete, stats and the sweep;
\* outcomes recorded
Init == Start(OneThread, TRUE)

\* several store() calls in flight; outcomes not recorded
InitConc == Start(Threads, FALSE)

\* time passes
Tick(d) ==
    /\ ticks < MaxTicks
    /\ clock' = clock + d
    /\ ticks' = ticks + 1
    /\ UNCHANGED <<cache, issued, pending, sweep_pc, sweep_now, last, config, lock_vars,
                   classifier_vars>>

\* store(pdf_bytes, total_pages), lines 136-153: up to the lock.  The call
\* that passes the size check waits for the lock with its locals.
\* upload_pdf_to_cache maps the ValueError to 413.
store_begin(pdf_bytes, total_pages) ==
    IF StoreRejects(pdf_bytes)
    THEN /\ Record(Outcome("store", 0, FALSE, 413,
                           <<pdf_bytes, total_pages>>, <<>>, <<>>))
         /\ UNCHANGED <<cache, clock, ticks, issued, pending, sweep_pc,
                        sweep_now, config, lock_vars, classifier_vars>>
    ELSE /\ Cardinality(issued) < MaxStores
         /\ Cardinality(pending) < Cardinality(workers)
         /\ pending' = pending \cup
                { [ pdf_bytes   |-> pdf_bytes,
                    total_pages |-> total_pages,
                    session_id  |-> uuid4,
                    entry       |-> CacheEntry(pdf_bytes, total_pages,
                                               clock, clock) ] }
         /\ issued' = issued \cup {uuid4}
         /\ UNCHANGED <<cache, clock, ticks, sweep_pc, sweep_now, last, config, lock_vars,
                        classifier_vars>>

\* store, lines 155-167: the critical section and the return
store_commit(call) ==
    /\ call \in pending
    /\ cache' = StoreLocked(cache, call.session_id, call.entry)
    /\ Record(Outcome("store", call.session_id, TRUE, 200,
                      <<call.pdf_bytes, call.total_pages>>,
                      EvictLog(cache, size_bytes(call.entry)), <<>>))
    /\ pending' = pending \ {call}
    /\ UNCHANGED <<clock, ticks, issued, sweep_pc, sweep_now, config, lock_vars,
                   classifier_vars>>

\* get(session_id); the clock may advance by d between the two time.time() calls
cache_get(session_id, d) ==
    LET r == get(cache, session_id, clock, clock + d) IN
    /\ d = 0 \/ (ticks < MaxTicks /\ r.ret # <<>>)
    /\ cache' = r.cache
    /\ clock' = clock + d
    /\ ticks' = IF d = 0 THEN ticks ELSE ticks + 1
    /\ Record(Outcome("get", session_id, r.ret # <<>>,
                      IF r.ret # <<>> THEN 200 ELSE 404, <<>>,
                      IF r.ret # <<>> THEN <<Item(session_id, r.ret[1])>>
                      ELSE r.expired, <<>>))
    /\ UNCHANGED <<issued, pending, sweep_pc, sweep_now, config, lock_vars,
                   classifier_vars>>

\* delete_cache_session(session_id): pdf_cache.delete, 404 when it returns False
delete_cache_session(session_id) ==
    LET r == delete(cache, session_id) IN
    /\ cache' = r.cache
    /\ Record(Outcome("delete", session_id, r.ret,
                      IF r.ret THEN 200 ELSE 404, <<>>, <<>>, <<>>))
    /\ UNCHANGED <<clock, ticks, issued, pending, sweep_pc, sweep_now, config, lock_vars,
                   classifier_vars>>

\* get_cache_stats: pdf_cache.get_stats()
get_cache_stats ==
    /\ Record(Outcome("stats", 0, TRUE, 200, <<>>, <<>>, get_stats(cache)))
    /\ UNCHANGED <<cache, clock, ticks, issued, pending, sweep_pc, sweep_now,
                   config, lock_vars, classifier_vars>>

\* _cleanup_expired, line 91: now = time.time(), before the lock
sweep_begin ==
    /\ sweep_pc = "sleep"
    /\ sweep_pc' = "lock"
    /\ sweep_now' = clock
    /\ UNCHANGED <<cache, clock, ticks, issued, pending, last, config, lock_vars,
                   classifier_vars>>

\* _cleanup_expired, lines 94-103: the pass under the lock
sweep_pass ==
    /\ sweep_pc = "lock"
    /\ cache' = SweepLocked(cache, sweep_now)
    /\ Record(Outcome("sweep", 0, TRUE, 0, <<>>,
                      ExpiredSessions(cache, sweep_now), <<>>))
    /\ sweep_pc' = "sleep"
    /\ sweep_now' = 0
    /\ UNCHANGED <<clock, ticks, issued, pending, config, lock_vars, classifier_vars>>

Next ==
    \/ \E d \in TickSteps : Tick(d)
    \/ \E x \in StoreInputs : store_begin(x.pdf_bytes, x.total_pages)
    \/ \E call \in pending : store_commit(call)
    \/ \E s \in SessionIds, d \in GetDelays : cache_get(s, d)
    \/ \E s \in SessionIds : delete_cache_session(s)
    \/ get_cache_stats
    \/ sweep_begin
    \/ sweep_pass

Spec == Init /\ [][Next]_vars

SpecConc == InitConc /\ [][Next]_vars

-----------------------------------------------------------------------------
(* get_page_from_cache, pdf_routes.py lines 473-544 *)

\* the page numbers requested
PageNumbers == 0 .. 3

\* PdfConverter.pages_to_images(pdf_bytes, pages=[page]): the pages of the
\* list that the document has, rendered
pages_to_images(entry, page) ==
    IF 0 < page /\ page <= entry.total_pages THEN <<page>> ELSE <<>>

\* the response of the route: the status, the `page` and `total_pages` of a
\* PageResponse (0 when there is none), and the range of pages the detail of
\* a 400 names (<<>> when it names none)
PageOutcome(sid, status, page, total_pages, range) ==
    [ op |-> "page", sid |-> sid, ok |-> status = 200, status |-> status,
      page |-> page, total_pages |-> total_pages, range |-> range,
      prev_op |-> "" ]

\* get_page_from_cache with the page test before the session test: the entry
\* is read without get, and a bad page is reported first
get_page_from_cache_page_first(session_id, page, d, renders) ==
    LET r == get(cache, session_id, clock, clock + d)
        i == IndexOf(cache, session_id)
    IN
    /\ d = 0 \/ (ticks < MaxTicks /\ r.ret # <<>>)
    /\ cache' = r.cache
    /\ clock' = clock + d
    /\ ticks' = IF d = 0 THEN ticks ELSE ticks + 1
    /\ Record(IF i # 0 /\ (page < 1 \/ page > cache[i].value.total_pages)
              THEN PageOutcome(session_id, 400, 0, 0,
                               <<1, cache[i].value.total_pages>>)
              ELSE IF r.ret = <<>>
              THEN PageOutcome(session_id, 404, 0, 0, <<>>)
              ELSE IF ~ renders
              THEN PageOutcome(session_id, 500, 0, 0, <<>>)
              ELSE PageOutcome(session_id, 200, page, r.ret[1].total_pages, <<>>))
    /\ UNCHANGED <<issued, pending, sweep_pc, sweep_now, config, lock_vars,
                   classifier_vars>>

\* the route; the clock may advance by d between the two time.time() calls
\* of get, and the renderer returns the image or raises (renders = FALSE)
get_page_from_cache(session_id, page, d, renders) ==
    LET r == get(cache, session_id, clock, clock + d) IN
    /\ d = 0 \/ (ticks < MaxTicks /\ r.ret # <<>>)
    /\ cache' = r.cache
    /\ clock' = clock + d
    /\ ticks' = IF d = 0 THEN ticks ELSE ticks + 1
    /\ Record(IF r.ret = <<>>
              THEN PageOutcome(session_id, 404, 0, 0, <<>>)
              ELSE LET entry == r.ret[1] IN
                   IF page < 1 \/ page > entry.total_pages
                   THEN PageOutcome(session_id, 400, 0, 0,
                                    <<1, entry.total_pages>>)
                   ELSE IF ~ renders \/ pages_to_images(entry, page) = <<>>
                   THEN PageOutcome(session_id, 500, 0, 0, <<>>)
                   ELSE PageOutcome(session_id, 200, page,
                                    entry.total_pages, <<>>))
    /\ UNCHANGED <<issued, pending, sweep_pc, sweep_now, config, lock_vars,
                   classifier_vars>>

NextPage ==
    \/ \E d \in TickSteps : Tick(d)
    \/ \E x \in StoreInputs : store_begin(x.pdf_bytes, x.total_pages)
    \/ \E call \in pending : store_commit(call)
    \/ \E s \in SessionIds, page \in PageNumbers, d \in GetDelays,
          renders \in BOOLEAN : get_page_from_cache(s, page, d, renders)
    \/ \E s \in SessionIds : delete_cache_session(s)
    \/ sweep_begin
    \/ sweep_pass

\* the cache with the page route for its reader
SpecPage == Init /\ [][NextPage]_vars

-----------------------------------------------------------------------------
(* upload_pdf_to_cache, pdf_routes.py lines 408-463, and                    *)
(* upload_and_classify, lines 713-767.  A request body is its length being  *)
(* zero or not, its first bytes (head), the document it carries and, for a  *)
(* body of base64 text, whether base64.b64decode accepts it (it raises on   *)
(* incorrect padding).                                                      *)

RequestBody(head, payload, padded) ==
    [head |-> head, payload |-> payload, padded |-> padded]

Bodies ==
    { RequestBody("", <<>>, TRUE) }                          \* no body
    \cup { RequestBody("%PDF", <<x.pdf_bytes>>, TRUE) : x \in StoreInputs }
    \cup { RequestBody("JVBERi", <<x.pdf_bytes>>, padded) :
             x \in StoreInputs, padded \in BOOLEAN }
    \cup { RequestBody("<html", <<>>, TRUE) }                \* something else

\* base64.b64decode(raw_body) of a body that starts with JVBERi: the bytes,
\* which then start with %PDF, or <<>> when it raises binascii.Error
b64decode(raw_body) ==
    IF raw_body.padded THEN raw_body.payload ELSE <<>>

\* pdf_bytes[:4] == b'%PDF': every document of StoreInputs is a PDF
StartsWithPdfMagic(pdf_bytes) ==
    \E x \in StoreInputs : x.pdf_bytes = pdf_bytes

\* PdfConverter.get_page_count(pdf_bytes): the number of pages of the document
get_page_count(pdf_bytes) ==
    (CHOOSE x \in StoreInputs : x.pdf_bytes = pdf_bytes).total_pages

\* the response of an upload route that did not get to store
Refused(route, status) ==
    /\ Record(Outcome(route, 0, FALSE, status, <<>>, <<>>, <<>>))
    /\ UNCHANGED <<cache, clock, ticks, issued, pending, sweep_pc, sweep_now,
                   config, lock_vars, classifier_vars>>

\* upload_pdf_to_cache, up to the call of store (store_begin); the lock and
\* the return are store_commit
upload_pdf_to_cache(raw_body) ==
    IF raw_body.head = ""
    THEN Refused("upload", 400)                      \* lines 412-416
    ELSE IF raw_body.head = "%PDF"
    THEN store_begin(raw_body.payload[1], get_page_count(raw_body.payload[1]))
    ELSE IF raw_body.head = "JVBERi"
    THEN IF b64decode(raw_body) = <<>>
         THEN Refused("upload", 400)                 \* lines 424-430
         ELSE IF ~ StartsWithPdfMagic(b64decode(raw_body)[1])
         THEN Refused("upload", 400)                 \* lines 438-442
         ELSE store_begin(b64decode(raw_body)[1],
                          get_page_count(b64decode(raw_body)[1]))
    ELSE Refused("upload", 400)                      \* lines 431-435

\* upload_and_classify, up to the call of store (store_begin); the lock and
\* the return are store_commit, and classify_pdf follows.  b64decode is not in
\* a try of its own: what it raises reaches `except Exception` and is
\* answered 500 (lines 765-767).
upload_and_classify(raw_body) ==
    IF raw_body.head = ""
    THEN Refused("upload-and-classify", 400)         \* lines 717-721
    ELSE IF raw_body.head = "%PDF"
    THEN store_begin(raw_body.payload[1], get_page_count(raw_body.payload[1]))
    ELSE IF raw_body.head = "JVBERi"
    THEN IF b64decode(raw_body) = <<>>
         THEN Refused("upload-and-classify", 500)    \* lines 727, 765-767
         ELSE store_begin(b64decode(raw_body)[1],
                          get_page_count(b64decode(raw_body)[1]))
    ELSE Refused("upload-and-classify", 400)         \* lines 728-732

NextUpload ==
    \/ \E raw_body \in Bodies : upload_pdf_to_cache(raw_body)
    \/ \E raw_body \in Bodies : upload_and_classify(raw_body)
    \/ \E call \in pending : store_commit(call)
    \/ \E s \in SessionIds : delete_cache_session(s)
    \/ get_cache_stats

\* the cache with the two upload routes for its writers
SpecUpload == Init /\ [][NextUpload]_vars

-----------------------------------------------------------------------------
(* PdfCache statement by statement: each thread is at a statement of the    *)
(* method it runs, `with self._cache_lock` is entered by one step and left  *)
(* by another, and every read or write of the dict in between is a step of  *)
(* its own.                                                                 *)

\* statement by statement, store() passes the size check at most LockStores
\* times
LockStores == 2

\* the statements at which a thread waits to enter `with self._cache_lock`,
\* and the first statement inside for each
FirstInside ==
    [ store_lock  |-> "store_evict",     \* line 155
      get_lock    |-> "get_lookup",      \* line 179
      delete_lock |-> "delete_body",     \* line 206
      stats_lock  |-> "stats_len",       \* line 215
      sweep_lock  |-> "sweep_collect" ]  \* line 94

\* the statements inside `with self._cache_lock`; at *_unlock the body is
\* done and the block is about to be left
InsideLock ==
    { "store_evict", "store_insert", "store_unlock",
      "get_lookup", "get_time", "get_touch", "get_unlock",
      "delete_body", "delete_unlock",
      "stats_len", "stats_size", "stats_mb", "stats_unlock",
      "sweep_collect", "sweep_delete", "sweep_unlock" }

UnlockPoints ==
    { "store_unlock", "get_unlock", "delete_unlock", "stats_unlock",
      "sweep_unlock" }

Goto(t, p) == pc' = [pc EXCEPT ![t] = p]

\* what the step by step actions leave alone
coarse_vars ==
    <<pending, sweep_pc, sweep_now, last, config, classifier_vars, singleton_vars>>

\* Lock.acquire that does not wait: the lock is taken whoever holds it
acquire_no_wait(t) == lock' = t

\* threading.Lock.acquire(), by `with`: blocks until the lock is free
acquire(t) == lock = "free" /\ lock' = t

\* threading.Lock.release(), by `with`
release(t) == lock' = "free"

\* a thread enters `with self._cache_lock`
lock_acquire(t) ==
    /\ pc[t] \in DOMAIN FirstInside
    /\ acquire(t)
    /\ Goto(t, FirstInside[pc[t]])
    /\ UNCHANGED <<cache, clock, ticks, issued, frame, coarse_vars>>

\* a thread leaves `with self._cache_lock` and its call returns
lock_release(t) ==
    /\ pc[t] \in UnlockPoints
    /\ release(t)
    /\ Goto(t, "idle")
    /\ frame' = [frame EXCEPT ![t] = NoFrame]
    /\ UNCHANGED <<cache, clock, ticks, issued, coarse_vars>>

\* store, lines 136-153; a call that fails the size check raises and returns
store_call(t, pdf_bytes, total_pages) ==
    /\ pc[t] = "idle"
    /\ t \in Threads
    /\ IF StoreRejects(pdf_bytes)
       THEN UNCHANGED <<issued, pc, frame>>
       ELSE /\ Cardinality(issued) < LockStores
            /\ issued' = issued \cup {uuid4}
            /\ frame' = [frame EXCEPT ![t] =
                   Frame(uuid4, <<CacheEntry(pdf_bytes, total_pages, clock, clock)>>,
                         clock, 0)]
            /\ Goto(t, "store_lock")
    /\ UNCHANGED <<cache, clock, ticks, lock, coarse_vars>>

\* store, lines 157-158: one test of the loop, and one _evict_oldest() when
\* it is true; _evict_oldest logs what it popped, line 120
store_evict(t) ==
    /\ pc[t] = "store_evict"
    /\ IF _get_total_size(cache) + size_bytes(frame[t].entry[1])
             > MAX_CACHE_SIZE_BYTES
       THEN /\ cache' = _evict_oldest(cache)
            /\ frame' = IF cache = <<>> THEN frame          \* line 112
                        ELSE [frame EXCEPT ![t].logged = @ \cup {120}]
            /\ UNCHANGED pc
       ELSE UNCHANGED <<cache, frame>> /\ Goto(t, "store_insert")
    /\ UNCHANGED <<clock, ticks, issued, lock, coarse_vars>>

\* store, line 160
store_insert(t) ==
    /\ pc[t] = "store_insert"
    /\ cache' = DictSet(cache, frame[t].session_id, frame[t].entry[1])
    /\ Goto(t, "store_unlock")
    /\ UNCHANGED <<clock, ticks, issued, lock, frame, coarse_vars>>

\* get(session_id) is called
get_call(t, session_id) ==
    /\ pc[t] = "idle"
    /\ t \in Threads
    /\ frame' = [frame EXCEPT ![t] = Frame(session_id, <<>>, 0, clock)]
    /\ Goto(t, "get_lock")
    /\ UNCHANGED <<cache, clock, ticks, issued, lock, coarse_vars>>

\* get, lines 180-189: the lookup, and for an entry that is there the
\* expiry test with its own time.time()
get_lookup(t) ==
    LET i == IndexOf(cache, frame[t].session_id) IN
    /\ pc[t] = "get_lookup"
    /\ IF i = 0
       THEN UNCHANGED <<cache, frame>> /\ Goto(t, "get_unlock")
       ELSE IF IsExpired(cache[i].value, clock)
       THEN /\ cache' = DictDel(cache, frame[t].session_id)
            /\ frame' = [frame EXCEPT ![t].logged = @ \cup {188}]
            /\ Goto(t, "get_unlock")
       ELSE /\ frame' = [frame EXCEPT ![t].entry = <<cache[i].value>>]
            /\ UNCHANGED cache
            /\ Goto(t, "get_time")
    /\ UNCHANGED <<clock, ticks, issued, lock, coarse_vars>>

\* the reading get would write had it read the clock when it was called,
\* before the lock
time_at_call(t) == frame[t].called_at

\* get, line 192: time.time(), read inside the lock
time_at_touch(t) == clock

\* get, line 192, right-hand side: the reading
get_time(t) ==
    /\ pc[t] = "get_time"
    /\ frame' = [frame EXCEPT ![t].now = time_at_touch(t)]
    /\ Goto(t, "get_touch")
    /\ UNCHANGED <<cache, clock, ticks, issued, lock, coarse_vars>>

\* get, line 192, the assignment: entry is the object the dict holds, found
\* here by its key; an entry the dict holds no more is written all the same,
\* which the dict does not show
get_touch(t) ==
    LET i == IndexOf(cache, frame[t].session_id) IN
    /\ pc[t] = "get_touch"
    /\ cache' = IF i = 0 THEN cache
                ELSE [cache EXCEPT ![i].value.last_accessed = frame[t].now]
    /\ frame' = [frame EXCEPT ![t].entry[1].last_accessed = frame[t].now]
    /\ Goto(t, "get_unlock")
    /\ UNCHANGED <<clock, ticks, issued, lock, coarse_vars>>

\* delete(session_id) is called
delete_call(t, session_id) ==
    /\ pc[t] = "idle"
    /\ t \in Threads
    /\ frame' = [frame EXCEPT ![t] = Frame(session_id, <<>>, 0, 0)]
    /\ Goto(t, "delete_lock")
    /\ UNCHANGED <<cache, clock, ticks, issued, lock, coarse_vars>>

\* delete, lines 207-211; line 209 logs the removal
delete_body(t) ==
    /\ pc[t] = "delete_body"
    /\ cache' = delete(cache, frame[t].session_id).cache
    /\ frame' = IF delete(cache, frame[t].session_id).ret
                THEN [frame EXCEPT ![t].logged = @ \cup {209}]
                ELSE frame
    /\ Goto(t, "delete_unlock")
    /\ UNCHANGED <<clock, ticks, issued, lock, coarse_vars>>

\* get_stats() is called
get_stats_call(t) ==
    /\ pc[t] = "idle"
    /\ t \in Threads
    /\ frame' = [frame EXCEPT ![t] = Frame(0, <<>>, 0, 0)]
    /\ Goto(t, "stats_lock")
    /\ UNCHANGED <<cache, clock, ticks, issued, lock, coarse_vars>>

\* get_stats, lines 217-219: the dict display is evaluated item by item
get_stats_read(t) ==
    /\ \/ /\ pc[t] = "stats_len"
          /\ frame' = [frame EXCEPT ![t].active_sessions = Len(cache)]
          /\ Goto(t, "stats_size")
       \/ /\ pc[t] = "stats_size"
          /\ frame' = [frame EXCEPT ![t].total_size_bytes = _get_total_size(cache)]
          /\ Goto(t, "stats_mb")
       \/ /\ pc[t] = "stats_mb"
          /\ frame' = [frame EXCEPT ![t].total_size_mb = _get_total_size(cache)]
          /\ Goto(t, "stats_unlock")
    /\ UNCHANGED <<cache, clock, ticks, issued, lock, coarse_vars>>

\* _cleanup_loop wakes up: _cleanup_expired, lines 91-92
cleanup_now ==
    /\ pc[PdfCacheCleanup] = "idle"
    /\ frame' = [frame EXCEPT ![PdfCacheCleanup] = Frame(0, <<>>, clock, 0)]
    /\ Goto(PdfCacheCleanup, "sweep_lock")
    /\ UNCHANGED <<cache, clock, ticks, issued, lock, coarse_vars>>

\* _cleanup_expired, lines 95-97
cleanup_collect ==
    LET t == PdfCacheCleanup
        expired == ExpiredSessions(cache, frame[t].now)
    IN
    /\ pc[t] = "sweep_collect"
    /\ frame' = [frame EXCEPT ![t].expired_sessions =
                     [k \in 1 .. Len(expired) |-> expired[k].key]]
    /\ Goto(t, "sweep_delete")
    /\ UNCHANGED <<cache, clock, ticks, issued, lock, coarse_vars>>

\* _cleanup_expired, lines 99-100: one turn of the loop.  `del` of a key that
\* is not in the dict raises KeyError and ends the pass.
cleanup_delete ==
    LET t == PdfCacheCleanup
        todo == frame[t].expired_sessions
    IN
    /\ pc[t] = "sweep_delete"
    /\ IF todo = <<>>
       THEN UNCHANGED <<cache, frame>> /\ Goto(t, "sweep_unlock")
       ELSE IF Head(todo) \in Keys(cache)
       THEN /\ cache' = DictDel(cache, Head(todo))
            /\ frame' = [frame EXCEPT ![t].expired_sessions = Tail(todo)]
            /\ UNCHANGED pc
       ELSE UNCHANGED <<cache, frame>> /\ Goto(t, "sweep_unlock")
    /\ UNCHANGED <<clock, ticks, issued, lock, coarse_vars>>

NextLock ==
    \/ \E d \in TickSteps : Tick(d)
    \/ \E t \in LockThreads : lock_acquire(t)
    \/ \E t \in LockThreads : lock_release(t)
    \/ \E t \in Threads, x \in StoreInputs : store_call(t, x.pdf_bytes, x.total_pages)
    \/ \E t \in Threads : store_evict(t)
    \/ \E t \in Threads : store_insert(t)
    \/ \E t \in Threads, s \in issued : get_call(t, s)
    \/ \E t \in Threads : get_lookup(t)
    \/ \E t \in Threads : get_time(t)
    \/ \E t \in Threads : get_touch(t)
    \/ \E t \in Threads, s \in issued : delete_call(t, s)
    \/ \E t \in Threads : delete_body(t)
    \/ \E t \in Threads : get_stats_call(t)
    \/ \E t \in Threads : get_stats_read(t)
    \/ cleanup_now
    \/ cleanup_collect
    \/ cleanup_delete

\* the cache with two request threads and the cleanup thread, statement by
\* statement; outcomes not recorded.  get and delete are called with ids that
\* store has handed out: an id it never handed out is looked up like the id
\* of a session that was deleted.
SpecLock == InitConc /\ [][NextLock]_vars

\* the statements of thread t from the lock to the return: none of them
\* waits for anything
Proceed(t) ==
    \/ lock_release(t)
    \/ IF t = PdfCacheCleanup
       THEN cleanup_collect \/ cleanup_delete
       ELSE \/ store_evict(t) \/ store_insert(t)
            \/ get_lookup(t) \/ get_time(t) \/ get_touch(t)
            \/ delete_body(t)
            \/ get_stats_read(t)

\* one request thread uploads and deletes, the other reads
Uploader == "t1"

Reader == "t2"

\* the documents that fill the cache alone, and the one that is refused
LargeInputs == { x \in StoreInputs : x.pdf_bytes.len >= MAX_CACHE_SIZE_BYTES }

NextLockRoles ==
    \/ \E d \in TickSteps : Tick(d)
    \/ \E t \in LockThreads : lock_acquire(t)
    \/ \E t \in LockThreads : lock_release(t)
    \/ \E x \in LargeInputs : store_call(Uploader, x.pdf_bytes, x.total_pages)
    \/ store_evict(Uploader)
    \/ store_insert(Uploader)
    \/ \E s \in issued : get_call(Reader, s)
    \/ get_lookup(Reader)
    \/ get_time(Reader)
    \/ get_touch(Reader)
    \/ \E s \in issued : delete_call(Uploader, s)
    \/ delete_body(Uploader)
    \/ get_stats_call(Reader)
    \/ get_stats_read(Reader)
    \/ cleanup_now
    \/ cleanup_collect
    \/ cleanup_delete

\* the two request threads and the cleanup thread, statement by statement,
\* with threads that run, a lock that is fair (a thread that waits for it gets
\* it if it is free again and again) and a cleanup thread that wakes up after
\* each sleep
SpecLockFair ==
    /\ InitConc /\ [][NextLockRoles]_vars
    /\ \A t \in LockThreads : WF_vars(Proceed(t)) /\ SF_vars(lock_acquire(t))
    /\ WF_vars(cleanup_now)

-----------------------------------------------------------------------------
(* PdfCache(), statement by statement: __new__, lines 48-55, then __init__, *)
(* lines 57-67, on the object __new__ returned.  The first call is line 226 *)
(* of the module, run by the thread that imports it; the name PdfCache is   *)
(* bound for other threads when the import has completed.                   *)

\* PdfCache() is called at most MaxConstructions times
MaxConstructions == 4

\* what the statements of PdfCache() leave alone
registry_vars ==
    <<clock, ticks, issued, pc, frame, pending, sweep_pc, sweep_now, last,
      config, classifier_vars>>

At(t, p) == ctor_pc' = [ctor_pc EXCEPT ![t] = p]

\* line 226, as the import gets to it
import_module ==
    /\ ctor_pc[MainThread] = "import"
    /\ At(MainThread, "new_50")
    /\ constructions' = constructions + 1
    /\ UNCHANGED <<_instance, _initialized, _lock, _cleanup_thread, imported,
                   created, registries, started, cache, lock, registry_vars>>

\* a thread that has imported the module calls PdfCache()
construct_call(t) ==
    /\ imported
    /\ ctor_pc[t] = "idle"
    /\ constructions < MaxConstructions
    /\ At(t, "new_50")
    /\ constructions' = constructions + 1
    /\ UNCHANGED <<_instance, _initialized, _lock, _cleanup_thread, imported,
                   created, registries, started, cache, lock, registry_vars>>

\* __new__, line 50
new_check(t) ==
    /\ ctor_pc[t] = "new_50"
    /\ At(t, IF _instance = "None" THEN "new_51" ELSE "new_55")
    /\ UNCHANGED <<_instance, _initialized, _lock, _cleanup_thread, imported,
                   created, registries, started, constructions, cache, lock,
                   registry_vars>>

\* __new__, line 51: `with cls._lock` is entered
new_acquire(t) ==
    /\ ctor_pc[t] = "new_51"
    /\ _lock = "free"
    /\ _lock' = t
    /\ At(t, "new_52")
    /\ UNCHANGED <<_instance, _initialized, _cleanup_thread, imported,
                   created, registries, started, constructions, cache, lock,
                   registry_vars>>

\* __new__, line 52
new_recheck(t) ==
    /\ ctor_pc[t] = "new_52"
    /\ At(t, IF _instance = "None" THEN "new_53" ELSE "new_exit")
    /\ UNCHANGED <<_instance, _initialized, _lock, _cleanup_thread, imported,
                   created, registries, started, constructions, cache, lock,
                   registry_vars>>

\* __new__, line 53: the object is made and bound to cls._instance
new_create(t) ==
    /\ ctor_pc[t] = "new_53"
    /\ _instance' = "obj"
    /\ created' = created + 1
    /\ _initialized' = "unset"
    /\ _cleanup_thread' = "unset"
    /\ At(t, "new_54")
    /\ UNCHANGED <<_lock, imported, registries, started, constructions, cache,
                   lock, registry_vars>>

\* __new__, line 54
new_flag(t) ==
    /\ ctor_pc[t] = "new_54"
    /\ _initialized' = "False"
    /\ At(t, "new_exit")
    /\ UNCHANGED <<_instance, _lock, _cleanup_thread, imported,
                   created, registries, started, constructions, cache, lock,
                   registry_vars>>

\* __new__: `with cls._lock` is left
new_release(t) ==
    /\ ctor_pc[t] = "new_exit"
    /\ _lock' = "free"
    /\ At(t, "new_55")
    /\ UNCHANGED <<_instance, _initialized, _cleanup_thread, imported,
                   created, registries, started, constructions, cache, lock,
                   registry_vars>>

\* __new__, line 55: cls._instance is returned and __init__ is called on it
new_return(t) ==
    /\ ctor_pc[t] = "new_55"
    /\ At(t, "init_58")
    /\ UNCHANGED <<_instance, _initialized, _lock, _cleanup_thread, imported,
                   created, registries, started, constructions, cache, lock,
                   registry_vars>>

\* the test of line 58 without the guard: __init__ always goes on
AlreadyInitialized_never(flag) == FALSE

\* the test of line 58, on an object that has the attribute
AlreadyInitialized(flag) == flag = "True"

\* __init__, lines 58-59; reading an attribute that was never set raises
\* AttributeError
init_check(t) ==
    /\ ctor_pc[t] = "init_58"
    /\ At(t, IF _initialized = "unset" THEN "raised"
             ELSE IF AlreadyInitialized(_initialized) THEN "done"
             ELSE "init_61")
    /\ UNCHANGED <<_instance, _initialized, _lock, _cleanup_thread, imported,
                   created, registries, started, constructions, cache, lock,
                   registry_vars>>

\* __init__, lines 61-64: a new dict, a new lock, no cleanup thread
init_fields(t) ==
    /\ ctor_pc[t] = "init_61"
    /\ cache' = <<>>
    /\ lock' = "free"
    /\ registries' = registries + 1
    /\ _cleanup_thread' = "None"
    /\ At(t, "init_65")
    /\ UNCHANGED <<_instance, _initialized, _lock, imported, created, started,
                   constructions, registry_vars>>

\* __init__, line 65
init_flag(t) ==
    /\ ctor_pc[t] = "init_65"
    /\ _initialized' = "True"
    /\ At(t, "init_67")
    /\ UNCHANGED <<_instance, _lock, _cleanup_thread, imported,
                   created, registries, started, constructions, cache, lock,
                   registry_vars>>

\* __init__, line 67: _start_cleanup_thread, lines 71-80
init_start(t) ==
    /\ ctor_pc[t] = "init_67"
    /\ IF _cleanup_thread = "alive"
       THEN UNCHANGED <<_cleanup_thread, started>>
       ELSE _cleanup_thread' = "alive" /\ started' = started + 1
    /\ At(t, "done")
    /\ UNCHANGED <<_instance, _initialized, _lock, imported,
                   created, registries, constructions, cache, lock,
                   registry_vars>>

\* PdfCache() returns; the first return is that of line 226, which binds
\* pdf_cache and lets the import complete
construct_return(t) ==
    /\ ctor_pc[t] = "done"
    /\ At(t, "idle")
    /\ imported' = TRUE
    /\ UNCHANGED <<_instance, _initialized, _lock, _cleanup_thread,
                   created, registries, started, constructions, cache, lock,
                   registry_vars>>

NextSingleton ==
    \/ import_module
    \/ \E t \in ConstructThreads : construct_call(t)
    \/ \E t \in ConstructThreads : new_check(t)
    \/ \E t \in ConstructThreads : new_acquire(t)
    \/ \E t \in ConstructThreads : new_recheck(t)
    \/ \E t \in ConstructThreads : new_create(t)
    \/ \E t \in ConstructThreads : new_flag(t)
    \/ \E t \in ConstructThreads : new_release(t)
    \/ \E t \in ConstructThreads : new_return(t)
    \/ \E t \in ConstructThreads : init_check(t)
    \/ \E t \in ConstructThreads : init_fields(t)
    \/ \E t \in ConstructThreads : init_flag(t)
    \/ \E t \in ConstructThreads : init_start(t)
    \/ \E t \in ConstructThreads : construct_return(t)
    \/ imported /\ \E x \in StoreInputs : store_begin(x.pdf_bytes, x.total_pages)
    \/ imported /\ \E call \in pending : store_commit(call)

\* the import of the module, then PdfCache() from any thread next to store
SpecSingleton == InitImport /\ [][NextSingleton]_vars

\* the cleanup thread loops for as long as the process lives: a pass that can
\* start does start, and a pass that waits for the lock gets it
SpecSweep ==
    Init /\ [][Next]_vars /\ WF_vars(sweep_begin) /\ WF_vars(sweep_pass)

-----------------------------------------------------------------------------
(* classify_pdf(pdf_bytes), lines 94-119: one step per tier *)

\* fitz.open(stream=pdf_bytes): some document
classify_open(d) ==
    /\ cls_pc = "idle"
    /\ doc' = d
    /\ cls_pc' = "index"
    /\ UNCHANGED <<result, pixmaps, cache_vars>>

\* lines 99-106
try_index ==
    /\ cls_pc = "index"
    /\ LET found == _find_and_parse_index(doc) IN
       IF found.index_page # 0 /\ found.entries # <<>>
       THEN /\ result' = [ _classify_from_index(Len(doc), found.index_page,
                                                found.entries)
                           EXCEPT !.method_used = "index" ]
            /\ cls_pc' = "done"
       ELSE /\ result' = result
            /\ cls_pc' = "title"
    /\ UNCHANGED <<doc, pixmaps, cache_vars>>

\* try_titles that goes on to the colour analysis unless pid_pages has a page
try_titles_pid_only ==
    /\ cls_pc = "title"
    /\ LET r == _classify_by_page_titles(doc) IN
       IF r.pid_pages # <<>>
       THEN /\ result' = [r EXCEPT !.method_used = "title"]
            /\ cls_pc' = "done"
       ELSE /\ result' = r
            /\ cls_pc' = "visual"
    /\ UNCHANGED <<doc, pixmaps, cache_vars>>

\* lines 109-112
try_titles ==
    /\ cls_pc = "title"
    /\ LET r == _classify_by_page_titles(doc) IN
       IF r.pid_pages # <<>> \/ r.layout_pages # <<>>
       THEN /\ result' = [r EXCEPT !.method_used = "title"]
            /\ cls_pc' = "done"
       ELSE /\ result' = r
            /\ cls_pc' = "visual"
    /\ UNCHANGED <<doc, pixmaps, cache_vars>>

\* lines 115-116; rendered[n] is what page.get_pixmap does for page n: the
\* pixmap it returns, or RenderError when it raises.  Nothing between line
\* 300 and the caller of classify_pdf catches what it raises (the `finally`
\* of lines 121-122 closes the document): the first page that fails ends the
\* call with no result.
try_visual(rendered) ==
    /\ cls_pc = "visual"
    /\ pixmaps' = rendered
    /\ IF \E n \in 1 .. Len(doc) : rendered[n] = RenderError
       THEN /\ result' = result
            /\ cls_pc' = "raised"
       ELSE /\ result' = [ _classify_by_visual(doc,
                              [ n \in 1 .. Len(doc) |-> is_colorful[rendered[n]] ])
                           EXCEPT !.method_used = "visual" ]
            /\ cls_pc' = "done"
    /\ UNCHANGED <<doc, cache_vars>>

NextClassify ==
    \/ \E d \in Documents : classify_open(d)
    \/ try_index
    \/ try_titles
    \/ \E rendered \in [1 .. Len(doc) -> Pixmaps] : try_visual(rendered)

SpecClassify == Init /\ [][NextClassify]_vars

-----------------------------------------------------------------------------
(* Descriptions as text.  A string is the sequence of its characters, and   *)
(* `kw in name_upper` is the search for the keyword as a substring.         *)

\* lines 58-61
PID_KEYWORDS ==
    { <<"S", "C", "H", "E", "M", "A", "T", "I", "C">>,
      <<"S", "C", "H", "E", "M", "A", "T", "I", "C", "S">>,
      <<"P", "&", "I", "D">>,
      <<"P", "&", "I">>,
      <<"P", "I", "P", "I", "N", "G", " ", "A", "N", "D", " ", "I", "N", "S", "T", "R", "U", "M", "E", "N", "T", "A", "T", "I", "O", "N">>,
      <<"F", "L", "O", "W", " ", "D", "I", "A", "G", "R", "A", "M">> }

\* lines 63-66
LAYOUT_KEYWORDS ==
    { <<"L", "A", "Y", "O", "U", "T">>,
      <<"P", "L", "A", "N">>,
      <<"E", "L", "E", "V", "A", "T", "I", "O", "N">>,
      <<"S", "E", "C", "T", "I", "O", "N">>,
      <<"D", "E", "T", "A", "I", "L">>,
      <<"G", "A">>,
      <<"G", "E", "N", "E", "R", "A", "L", " ", "A", "R", "R", "A", "N", "G", "E", "M", "E", "N", "T">>,
      <<"P", "L", "A", "N", "T", "R", "O", "O", "M">> }

\* lines 73-75
LEGEND_KEYWORDS ==
    { <<"L", "E", "G", "E", "N", "D">>,
      <<"S", "Y", "M", "B", "O", "L">>,
      <<"S", "T", "A", "N", "D", "A", "R", "D", " ", "D", "E", "T", "A", "I", "L">>,
      <<"K", "E", "Y">> }

\* Python's `kw in text`
Contains(text, kw) ==
    \E i \in 1 .. (Len(text) - Len(kw) + 1) : SubSeq(text, i, i + Len(kw) - 1) = kw

\* any(kw in name_upper for kw in keywords)
HasKeyword(text, keywords) == \E kw \in keywords : Contains(text, kw)

\* what _classify_by_name tests of a description
NameOf(text) ==
    Name(HasKeyword(text, PID_KEYWORDS), HasKeyword(text, LEGEND_KEYWORDS),
         HasKeyword(text, LAYOUT_KEYWORDS))

\* descriptions of drawings, upper case as _find_and_parse_index passes them
StandardDetail ==
    <<"S", "T", "A", "N", "D", "A", "R", "D", " ", "D", "E", "T", "A", "I", "L">>

SchematicLegend ==
    <<"S", "C", "H", "E", "M", "A", "T", "I", "C", " ", "L", "E", "G", "E", "N", "D">>

PidLayout ==
    <<"P", "&", "I", "D", " ", "L", "A", "Y", "O", "U", "T">>

PlantroomLayout ==
    <<"P", "L", "A", "N", "T", "R", "O", "O", "M", " ", "L", "A", "Y", "O", "U", "T">>

GeneralNotes ==
    <<"G", "E", "N", "E", "R", "A", "L", " ", "N", "O", "T", "E", "S">>

PipeworkSchematics ==
    <<"M", "E", "C", "H", "A", "N", "I", "C", "A", "L", " ", "P", "I", "P", "E", "W", "O", "R", "K", " ", "S", "C", "H", "E", "M", "A", "T", "I", "C", "S">>

\* the descriptions on the index page of the longer documents, line by line
IndexLines ==
    <<StandardDetail, SchematicLegend, PidLayout, PlantroomLayout, GeneralNotes>>

-----------------------------------------------------------------------------
(* classify_pdf on documents longer than the index scan *)

\* documents have up to one page more than _find_and_parse_index scans
ScanPages == IndexScanPages + 1

\* the pages of the longer documents: a page with no keyword, a page with an
\* index keyword and no description the pattern matches, an index page with
\* one description, an index page with the descriptions of IndexLines, a page
\* with a layout keyword
ScanTexts ==
    { PageText(FALSE, FALSE, FALSE, <<>>),
      PageText(TRUE, FALSE, FALSE, <<>>),
      PageText(TRUE, TRUE, FALSE, <<NameOf(PipeworkSchematics)>>),
      PageText(TRUE, TRUE, TRUE,
               [ k \in 1 .. Len(IndexLines) |-> NameOf(IndexLines[k]) ]),
      PageText(FALSE, FALSE, TRUE, <<>>) }

LongDocuments == UNION { [1 .. n -> ScanTexts] : n \in 1 .. ScanPages }

\* the renderings of their pages
ScanPixmaps ==
    { Pixmap(5, 4, 0, Black, Black, White), Pixmap(5, 4, 0, MidRed, MidRed, MidRed) }

NextScan ==
    \/ \E d \in LongDocuments : classify_open(d)
    \/ try_index
    \/ try_titles
    \/ \E rendered \in [1 .. Len(doc) -> ScanPixmaps] : try_visual(rendered)

SpecScan == Init /\ [][NextScan]_vars

-----------------------------------------------------------------------------
(* classify_pdf on documents that get to the colour analysis *)

\* documents of one or two pages with no keyword on any page; a page is
\* rendered or its rendering fails
BlankDocuments ==
    UNION { [1 .. n -> {PageText(FALSE, FALSE, FALSE, <<>>)}] : n \in 1 .. 2 }

NextColors ==
    \/ \E d \in BlankDocuments : classify_open(d)
    \/ try_index
    \/ try_titles
    \/ \E rendered \in [1 .. Len(doc) -> ColorPixmaps \cup {RenderError}] :
          try_visual(rendered)

SpecColors == Init /\ [][NextColors]_vars

-----------------------------------------------------------------------------
(* upload_and_classify to its response: store, lines 738-741, then          *)
(* classify_pdf on the same bytes, line 744, then the return of lines       *)
(* 751-761 or, when classify_pdf raised, the 500 of lines 765-767.  The     *)
(* requests are served one after the other.                                 *)

\* the pages of an uploaded document: no keyword, or a schematic keyword
UploadTexts ==
    { PageText(FALSE, FALSE, FALSE, <<>>), PageText(FALSE, TRUE, FALSE, <<>>) }

\* the documents a byte string of StoreInputs may be, of its page count
UploadedDocuments ==
    UNION { [1 .. x.total_pages -> UploadTexts] : x \in StoreInputs }

\* upload_and_classify has stored the document and has not answered yet
Stored == last.op = "store" /\ last.ok

\* a request is being served
RouteBusy == pending # {} \/ cls_pc # "idle" \/ Stored

\* line 744: classify_pdf opens the bytes that were stored, a document of
\* the page count get_page_count gave
classify_stored(d) ==
    /\ Stored
    /\ Len(d) = last.req[2]
    /\ classify_open(d)

\* lines 751-761, and 765-767 when classify_pdf raised
upload_and_classify_respond ==
    /\ Stored
    /\ cls_pc \in {"done", "raised"}
    /\ Record(IF cls_pc = "done"
              THEN Outcome("upload-and-classify", last.sid, TRUE, 200,
                           last.req, <<>>, <<>>)
              ELSE Outcome("upload-and-classify", 0, FALSE, 500,
                           last.req, <<>>, <<>>))
    /\ cls_pc' = "idle"
    /\ doc' = <<>>
    /\ result' = NoResult
    /\ pixmaps' = <<>>
    /\ UNCHANGED <<cache, clock, ticks, issued, pending, sweep_pc, sweep_now,
                   config, lock_vars>>

NextUploadClassify ==
    \/ \E d \in TickSteps : Tick(d)
    \/ ~ RouteBusy /\ \E raw_body \in Bodies : upload_and_classify(raw_body)
    \/ \E call \in pending : store_commit(call)
    \/ \E d \in UploadedDocuments : classify_stored(d)
    \/ try_index
    \/ try_titles
    \/ \E rendered \in [1 .. Len(doc) -> ScanPixmaps \cup {RenderError}] :
          try_visual(rendered)
    \/ upload_and_classify_respond
    \/ ~ RouteBusy /\ \E s \in SessionIds, page \in PageNumbers, d \in GetDelays,
                         renders \in BOOLEAN :
                         get_page_from_cache(s, page, d, renders)
    \/ ~ RouteBusy /\ \E s \in SessionIds : delete_cache_session(s)

\* upload-and-classify, the page route and the delete route
SpecUploadClassify == Init /\ [][NextUploadClassify]_vars


-----------------------------------------------------------------------------
(* Properties of the session cache *)

\* self._cache[sid]
Entry(sid) == cache[IndexOf(cache, sid)].value

\* time.time() - entry.last_accessed, read now
Age(sid) == clock - Entry(sid).last_accessed

\* C1: in every reachable state the sizes of the entries in the registry add
\* up to at most MAX_CACHE_SIZE_BYTES, and no single entry, stored or about
\* to be stored, is larger than that.
C1_AggregateSizeBounded ==
    /\ _get_total_size(cache) <= MAX_CACHE_SIZE_BYTES
    /\ \A i \in 1 .. Len(cache) :
          size_bytes(cache[i].value) <= MAX_CACHE_SIZE_BYTES
    /\ \A call \in pending : size_bytes(call.entry) <= MAX_CACHE_SIZE_BYTES

\* a store has just returned an id after evicting two entries, and the
\* registry is filled to the limit exactly
C1_Witness ==
    /\ last.op = "store" /\ last.ok
    /\ Len(last.out) = 2
    /\ last.sid \in Keys(cache)
    /\ _get_total_size(cache) = MAX_CACHE_SIZE_BYTES

\* the sizes of a set of items, added up
RECURSIVE SizeOfAll(_)
SizeOfAll(items) ==
    IF items = {} THEN 0
    ELSE LET e == CHOOSE x \in items : TRUE
         IN e.value.pdf_bytes.len + SizeOfAll(items \ {e})

\* what one store_commit(call) step does to the registry, read off the
\* registry before and after and off the eviction log
StoreEvictsLRU(call) ==
    LET before == Range(cache)
        kept == Range(cache') \ {Item(call.session_id, call.entry)}
        evicted == before \ kept
        log == last'.out
        need == call.pdf_bytes.len
    IN
    \* the log lists the entries that left the registry, each once
    /\ Range(log) = evicted /\ Len(log) = Cardinality(evicted)
    /\ kept \subseteq before
    \* in increasing order of last_accessed
    /\ \A i, j \in 1 .. Len(log) :
          i < j => log[i].value.last_accessed <= log[j].value.last_accessed
    \* no entry stays that is strictly older than an evicted one
    /\ \A gone \in evicted, stay \in kept :
          gone.value.last_accessed <= stay.value.last_accessed
    \* each eviction was needed: before it the new document did not fit
    /\ \A k \in 1 .. Len(log) :
          SizeOfAll(before \ { log[i] : i \in 1 .. (k - 1) }) + need
              > MAX_CACHE_SIZE_BYTES
    \* and it stops as soon as the document fits
    /\ SizeOfAll(kept) + need <= MAX_CACHE_SIZE_BYTES
    /\ SizeOfAll(before) + need <= MAX_CACHE_SIZE_BYTES => evicted = {}

\* C2: the entries a store evicts are exactly the least recently accessed
\* ones: they leave in increasing order of last_accessed, none leaves while a
\* strictly older one stays, and eviction stops at the first point where the
\* new document fits (nothing is evicted when it fits from the start).
C2_EvictsLeastRecentlyAccessed ==
    [][\A call \in pending : store_commit(call) => StoreEvictsLRU(call)]_vars

\* a store has evicted a session although a session inserted before it is
\* still there (that one was read in between)
C2_Witness ==
    /\ last.op = "store" /\ last.ok
    /\ Len(last.out) = 1
    /\ \E i \in 1 .. Len(cache) :
          /\ cache[i].key < last.out[1].key
          /\ cache[i].value.last_accessed > last.out[1].value.last_accessed

\* C3: a get of the id a store has just returned, with no operation in
\* between and at most the TTL after the time the store stamped the entry
\* with, returns an entry whose pdf_bytes and total_pages are the ones that
\* were passed to store.
C3_StoreThenGetRoundTrip ==
    [][\A s \in SessionIds, d \in GetDelays :
         ( /\ cache_get(s, d)
           /\ last.op = "store" /\ last.ok /\ last.sid = s
           /\ Age(s) <= DEFAULT_TTL_SECONDS )
         => /\ last'.ok
            /\ Len(last'.out) = 1
            /\ last'.out[1].key = s
            /\ last'.out[1].value.pdf_bytes = last.req[1]
            /\ last'.out[1].value.total_pages = last.req[2]
      ]_vars

\* a get right after the store of the same session has returned the entry,
\* a document of exactly the limit size, one TTL after it was stamped
C3_Witness ==
    /\ last.op = "get" /\ last.ok /\ last.prev_op = "store"
    /\ last.out[1].value.pdf_bytes.len = MAX_CACHE_SIZE_BYTES
    /\ last.out[1].value.total_pages = 2
    /\ last.out[1].value.last_accessed - last.out[1].value.created_at
           >= DEFAULT_TTL_SECONDS

\* once a stored session has left the registry its id never comes back
GoneForGood(s) ==
    ( /\ s \in issued
      /\ s \notin Keys(cache)
      /\ s \notin {call.session_id : call \in pending} )
        => s \notin Keys(cache')

\* C4: a get of a session whose last access is more than the TTL ago returns
\* not-found and removes the entry; stats counts exactly the entries of the
\* registry, so no longer that one; and the id never comes back, so every
\* later get of it returns not-found too.
C4_LazyExpiry ==
    [][/\ \A s \in SessionIds, d \in GetDelays :
            cache_get(s, d) =>
              /\ (s \in Keys(cache) /\ Age(s) > DEFAULT_TTL_SECONDS) =>
                    /\ ~ last'.ok /\ last'.status = 404
                    /\ last'.out = <<Item(s, Entry(s))>>
                    /\ Range(cache') = Range(cache) \ {Item(s, Entry(s))}
                    /\ Len(cache') = Len(cache) - 1
                    /\ clock' = clock
              /\ s \notin Keys(cache) =>
                    ~ last'.ok /\ last'.out = <<>> /\ cache' = cache
       /\ get_cache_stats =>
              /\ last'.stats[1] = Cardinality(Keys(cache))
              /\ last'.stats[2] = SizeOfAll(Range(cache))
       /\ \A s \in SessionIds : GoneForGood(s)
      ]_vars

\* a get has found its session expired and removed it, another session stays
C4_Witness ==
    /\ last.op = "get" /\ ~ last.ok
    /\ Len(last.out) = 1
    /\ last.sid \notin Keys(cache)
    /\ cache # <<>>

\* C5: every get that returns an entry sets its last_accessed to the current
\* time; a get up to and including an age of exactly the TTL returns the
\* entry; and neither get nor the sweep removes a session whose last access
\* is at most the TTL ago.
C5_SlidingTTL ==
    [][/\ \A s \in SessionIds, d \in GetDelays :
            cache_get(s, d) =>
              /\ (s \in Keys(cache) /\ Age(s) <= DEFAULT_TTL_SECONDS) =>
                    /\ last'.ok
                    /\ s \in Keys(cache')
                    /\ cache'[IndexOf(cache', s)].value.last_accessed = clock'
                    /\ last'.out[1].value.last_accessed = clock'
              /\ last'.ok =>
                    cache'[IndexOf(cache', s)].value.last_accessed = clock'
              /\ \A o \in Keys(cache) \ Keys(cache') :
                    Age(o) > DEFAULT_TTL_SECONDS
       /\ sweep_pass =>
              \A o \in Keys(cache) \ Keys(cache') : Age(o) > DEFAULT_TTL_SECONDS
      ]_vars

\* a session read at an age of exactly the TTL, twice: it is alive two TTLs
\* after it was stored
C5_Witness ==
    /\ last.op = "get" /\ last.ok
    /\ last.out[1].value.last_accessed - last.out[1].value.created_at
           = 2 * DEFAULT_TTL_SECONDS
    /\ last.sid \in Keys(cache)

\* C6: delete returns true exactly when the session was present, and then
\* removes it and nothing else; a second delete of the same id right after
\* returns false and leaves the registry as it is; the route answers 404 for
\* an absent session.
C6_DeleteTwice ==
    [][\A s \in SessionIds :
         delete_cache_session(s) =>
           /\ last'.ok = (s \in Keys(cache))
           /\ s \notin Keys(cache')
           /\ cache' = SelectSeq(cache, LAMBDA item : item.key # s)
           /\ last'.status = (IF s \in Keys(cache) THEN 200 ELSE 404)
           /\ (last.op = "delete" /\ last.sid = s /\ last.ok) =>
                 /\ ~ last'.ok
                 /\ cache' = cache
                 /\ last'.status = 404
      ]_vars

\* the second of two deletes in a row of a session that was present
C6_Witness ==
    /\ last.op = "delete" /\ last.prev_op = "delete"
    /\ ~ last.ok /\ last.status = 404
    /\ cache # <<>>

\* C7: store of a document longer than 500 MiB fails with the size error
\* (413 on the upload route), hands out no id, evicts nothing and leaves the
\* registry as it was; a document of exactly 500 MiB is accepted.
C7_OversizeRejected ==
    [][\A x \in StoreInputs :
         store_begin(x.pdf_bytes, x.total_pages) =>
           /\ x.pdf_bytes.len > 500 * 1024 * 1024 =>
                 /\ last'.op = "store" /\ ~ last'.ok /\ last'.status = 413
                 /\ last'.sid = 0
                 /\ cache' = cache /\ pending' = pending /\ issued' = issued
           /\ x.pdf_bytes.len <= 500 * 1024 * 1024 =>
                 /\ \E call \in pending' \ pending :
                       /\ call.pdf_bytes = x.pdf_bytes
                       /\ call.total_pages = x.total_pages
                 /\ last' = last
      ]_vars

\* a store has been refused while the registry holds a document of exactly
\* the limit size
C7_Witness ==
    /\ last.op = "store" /\ ~ last.ok /\ last.status = 413
    /\ last.req[1].len = MAX_CACHE_SIZE_BYTES + 1
    /\ Len(cache) = 1
    /\ cache[1].value.pdf_bytes.len = 500 * 1024 * 1024

\* the ids of the store calls that wait for the lock
PendingIds == { call.session_id : call \in pending }

C9_SweepRemovesExpired ==
    /\ [][sweep_pass =>
            /\ Keys(cache) \ Keys(cache') =
                 { k \in Keys(cache) :
                     sweep_now - Entry(k).last_accessed > DEFAULT_TTL_SECONDS }
            /\ cache' = SelectSeq(cache, LAMBDA item : item.key \in Keys(cache'))
         ]_vars
    /\ \A s \in SessionIds :
          (s \in Keys(cache) /\ Age(s) > DEFAULT_TTL_SECONDS)
              ~> (s \notin Keys(cache))

\* a pass has removed one session and kept another, whose age is exactly the
\* TTL
C9_Witness ==
    /\ last.op = "sweep"
    /\ Len(last.out) = 1
    /\ \E k \in Keys(cache) : Age(k) = DEFAULT_TTL_SECONDS

-----------------------------------------------------------------------------
(* Properties of the classifier *)

\* tier 1 has something: one of the pages it scans has an index keyword and
\* at least one description
HasParsedIndex(d) ==
    \E n \in 1 .. Len(d) :
        n <= 5 /\ d[n].is_index /\ d[n].names # <<>>

\* tier 2 has something: a page without index keyword has a P&ID or a layout
\* keyword
HasTitledPage(d) ==
    \E n \in 1 .. Len(d) : ~ d[n].is_index /\ (d[n].is_pid \/ d[n].is_layout)

\* C10: the result classify_pdf returns is that of one tier: method_used is
\* "index" exactly when one of the first pages is an index page with at
\* least one parsed entry, whatever the lists then hold; failing that it is
\* "title" exactly when the title scan puts a page in pid_pages or
\* layout_pages; failing that it is "visual", and the result is that of the
\* colour analysis of the document alone: no index_page, no pid_pages, every
\* page in layout_pages or unknown_pages.
C10_CascadeOrder ==
    cls_pc = "done" =>
      /\ result.method_used \in {"index", "title", "visual"}
      /\ result.total_pages = Len(doc)
      /\ (result.method_used = "index") = HasParsedIndex(doc)
      /\ (result.method_used = "title") =
             (~ HasParsedIndex(doc) /\ HasTitledPage(doc))
      /\ (result.method_used = "visual") =
             (~ HasParsedIndex(doc) /\ ~ HasTitledPage(doc))
      /\ result.method_used = "index" =>
             /\ result.index_page \in 1 .. Len(doc)
             /\ doc[result.index_page].is_index
             /\ doc[result.index_page].names # <<>>
             /\ \A n \in 1 .. (result.index_page - 1) :
                   ~ (doc[n].is_index /\ doc[n].names # <<>>)
      /\ result.method_used = "title" =>
             /\ Range(result.pid_pages) \cup Range(result.layout_pages) # {}
             /\ Range(result.pid_pages) \cup Range(result.layout_pages)
                  = { n \in 1 .. Len(doc) :
                        ~ doc[n].is_index /\ (doc[n].is_pid \/ doc[n].is_layout) }
      /\ result.method_used = "visual" =>
             /\ result.index_page = 0
             /\ result.pid_pages = <<>>
             /\ Range(result.layout_pages) \cup Range(result.unknown_pages)
                  = 1 .. Len(doc)
             /\ Range(result.layout_pages) \cap Range(result.unknown_pages) = {}

\* the colour analysis has classified a document whose title scan had found
\* an index page: the result has no index_page
C10_Witness ==
    /\ cls_pc = "done"
    /\ result.method_used = "visual"
    /\ \E n \in 1 .. Len(doc) : doc[n].is_index
    /\ result.index_page = 0
    /\ result.layout_pages # <<>>

\* how many times page n occurs in the three lists of r, taken together
Occurrences(r, n) ==
    Cardinality({ i \in 1 .. Len(r.pid_pages) : r.pid_pages[i] = n })
    + Cardinality({ i \in 1 .. Len(r.layout_pages) : r.layout_pages[i] = n })
    + Cardinality({ i \in 1 .. Len(r.unknown_pages) : r.unknown_pages[i] = n })

StrictlyIncreasing(list) ==
    \A i, j \in 1 .. Len(list) : i < j => list[i] < list[j]

\* C11: whichever tier built a result, each of pid_pages, layout_pages and
\* unknown_pages is in strictly increasing page order, no page number occurs
\* twice in the three lists together, and every element is in 1..total_pages.
C11_ListsOrderedDisjointInRange ==
    result # NoResult =>
      /\ StrictlyIncreasing(result.pid_pages)
      /\ StrictlyIncreasing(result.layout_pages)
      /\ StrictlyIncreasing(result.unknown_pages)
      /\ \A n \in Range(result.pid_pages) \cup Range(result.layout_pages)
                  \cup Range(result.unknown_pages) :
            /\ n \in 1 .. result.total_pages
            /\ Occurrences(result, n) = 1
      /\ result.total_pages = Len(doc)

\* the index tier has returned a result for an index with more entries than
\* pages after it, and the last page is listed
C11_Witness ==
    /\ cls_pc = "done"
    /\ result.method_used = "index"
    /\ result.index_page + Len(doc[result.index_page].names) > result.total_pages
    /\ Occurrences(result, result.total_pages) = 1

\* page n is the page of a legend entry of the index on page index_page
LegendEntryPage(d, index_page, n) ==
    /\ index_page # 0
    /\ n - index_page \in 1 .. Len(d[index_page].names)
    /\ _classify_by_name(d[index_page].names[n - index_page]) = "legend"

C13_IndexPageMapping ==
    (cls_pc = "done" /\ result.method_used = "index") =>
      LET N == result.index_page
          names == doc[N].names
          ListOf(kind) == CASE kind = "pid" -> result.pid_pages
                            [] kind = "layout" -> result.layout_pages
                            [] kind = "unknown" -> result.unknown_pages
                            [] OTHER -> <<>>
      IN
      /\ names # <<>>
      /\ \A k \in 1 .. Len(names) :
            LET kind == _classify_by_name(names[k]) IN
            IF N + k > result.total_pages
            THEN Occurrences(result, N + k) = 0
            ELSE IF kind = "legend"
            THEN Occurrences(result, N + k) = 0
            ELSE /\ N + k \in Range(ListOf(kind))
                 /\ Occurrences(result, N + k) = 1
      /\ (names[1].pid /\ N + 1 <= result.total_pages) =>
            N + 1 \in Range(result.pid_pages)

\* an index on page 1 lists a legend and then a schematic: page 2 is in no
\* list and page 3 is the P&ID
C13_Witness ==
    /\ cls_pc = "done"
    /\ result.method_used = "index"
    /\ result.index_page = 1
    /\ doc[1].names = <<LegendName, SchematicName>>
    /\ Len(doc) = 3
    /\ result.pid_pages = <<3>>
    /\ Occurrences(result, 2) = 0

\* C14: in what the title scan builds, a page with an index keyword is in no
\* list and the highest-numbered such page is index_page (none when there is
\* no such page); of the other pages, one with a schematic keyword is in
\* pid_pages, with or without a layout keyword; one with a layout keyword
\* only is in layout_pages; one with neither is in unknown_pages.
C14_TitleScanPerPage ==
    result.method_used = "title" =>
      /\ \A n \in 1 .. Len(doc) :
            IF doc[n].is_index
            THEN /\ Occurrences(result, n) = 0
                 /\ result.index_page >= n
            ELSE /\ Occurrences(result, n) = 1
                 /\ IF doc[n].is_pid THEN n \in Range(result.pid_pages)
                    ELSE IF doc[n].is_layout THEN n \in Range(result.layout_pages)
                    ELSE n \in Range(result.unknown_pages)
      /\ IF \E n \in 1 .. Len(doc) : doc[n].is_index
         THEN result.index_page \in 1 .. Len(doc)
              /\ doc[result.index_page].is_index
         ELSE result.index_page = 0

\* the title scan has returned a result for a document with two index pages
\* and a page with a layout keyword only: index_page is the second index page
\* and the third page is a layout
C14_Witness ==
    /\ cls_pc = "done"
    /\ result.method_used = "title"
    /\ \E m, n, l \in 1 .. Len(doc) :
          /\ m < n /\ doc[m].is_index /\ doc[n].is_index
          /\ result.index_page = n
          /\ doc[l].is_layout /\ ~ doc[l].is_pid /\ ~ doc[l].is_index
          /\ l \in Range(result.layout_pages)

\* the pixels of a rendering that the colour analysis looks at: every
\* (width * height \div 1000)-th, every one below 2000 pixels
SampledPixels(pix) ==
    LET total == pix.width * pix.height
        step == IF total \div 1000 > 1 THEN total \div 1000 ELSE 1
    IN { j \in 0 .. (total - 1) : j % step = 0 }

\* max(r, g, b) - min(r, g, b) of a colour
Spread(c) == Max3(c[1], c[2], c[3]) - Min3(c[1], c[2], c[3])

\* the renderings with more than 15% of the sampled pixels saturated
\* (spread above 50) and neither dark nor bright (30 < max < 230)
ColorfulShareAbove15 ==
    { pix \in Pixmaps :
        100 * Cardinality({ j \in SampledPixels(pix) :
                              /\ Spread(PixelOf(pix, j)) > 50
                              /\ Max3(PixelOf(pix, j)[1], PixelOf(pix, j)[2],
                                      PixelOf(pix, j)[3]) \in 31 .. 229 })
          > 15 * Cardinality(SampledPixels(pix)) }

\* the renderings in saturated colours only
SaturatedAllOver ==
    { pix \in Pixmaps :
        \A j \in 0 .. (pix.width * pix.height - 1) : Spread(PixelOf(pix, j)) > 50 }

\* the renderings in black, white and grey only
BlackAndWhite ==
    { pix \in Pixmaps :
        \A j \in 0 .. (pix.width * pix.height - 1) : Spread(PixelOf(pix, j)) = 0 }

\* a result of the colour analysis has no index_page and no pid_pages, and
\* every page is in exactly one of layout_pages and unknown_pages
VisualResultShape ==
    /\ result.index_page = 0
    /\ result.pid_pages = <<>>
    /\ result.total_pages = Len(doc)
    /\ \A n \in 1 .. Len(doc) :
          /\ Occurrences(result, n) = 1
          /\ n \in Range(result.layout_pages) \cup Range(result.unknown_pages)

-----------------------------------------------------------------------------
(* Properties of the cache routes *)

\* C16: a fetch of a page of a session that is not in the registry, or whose
\* last access is more than the TTL ago, answers 404 whatever the page
\* number; of a live session, a page number outside 1..total_pages answers
\* 400 with the range 1..total_pages in the detail; and only a live session
\* with a page number in the range gets to the renderer, whose image comes
\* back with 200 and whose failure with 500.
C16_FetchPageErrors ==
    [][\A s \in SessionIds, page \in PageNumbers, d \in GetDelays,
          renders \in BOOLEAN :
         ( /\ last'.op = "page" /\ last'.sid = s /\ clock' = clock + d
           /\ get_page_from_cache(s, page, d, renders) ) =>
           LET live == s \in Keys(cache) /\ Age(s) <= DEFAULT_TTL_SECONDS IN
           /\ ~ live => last'.status = 404 /\ last'.range = <<>>
           /\ (live /\ page \notin 1 .. Entry(s).total_pages) =>
                 /\ last'.status = 400
                 /\ last'.range = <<1, Entry(s).total_pages>>
           /\ (live /\ page \in 1 .. Entry(s).total_pages) =>
                 /\ last'.status = IF renders THEN 200 ELSE 500
                 /\ renders => /\ last'.page = page
                               /\ last'.total_pages = Entry(s).total_pages
           /\ last'.status \in {200, 500} =>
                 live /\ page \in 1 .. Entry(s).total_pages
      ]_vars

\* a fetch of page 3 of a live session of two pages has been answered 400
\* with the range 1..2
C16_Witness ==
    /\ last.op = "page"
    /\ last.status = 400
    /\ last.range = <<1, 2>>
    /\ last.sid \in Keys(cache)
    /\ Entry(last.sid).total_pages = 2

\* a body that is a PDF as it is, or base64 text that decodes to a PDF
IsPdfBody(raw_body) ==
    \/ raw_body.head = "%PDF"
    \/ raw_body.head = "JVBERi" /\ raw_body.padded

\* C17: on both upload routes a body that is neither a raw PDF nor base64
\* text that decodes to a PDF is answered with a client error (400), not an
\* internal error, and nothing is stored: no id is drawn, no store is
\* started, the registry stays as it is.
C17_BadFormatRejected ==
    [][\A raw_body \in Bodies :
         ( /\ ~ IsPdfBody(raw_body)
           /\ upload_pdf_to_cache(raw_body) \/ upload_and_classify(raw_body) )
         => /\ last'.status = 400
            /\ ~ last'.ok
            /\ cache' = cache /\ pending' = pending /\ issued' = issued
      ]_vars

\* the registry as the k-th eviction of a store finds it: without the items
\* the log lists before the k-th
BeforeEviction(c, log, k) ==
    SelectSeq(c, LAMBDA item : item \notin { log[i] : i \in 1 .. (k - 1) })

\* C20: a store does not evict what it inserts: when it has returned id s, and
\* until another operation has taken the lock, s is in the registry with the
\* entry the store built, and the eviction log does not list it.  Each victim
\* is, of the entries with the oldest last_accessed at that point, the one
\* inserted first.
C20_StoreKeepsItsEntry ==
    /\ []((last.op = "store" /\ last.ok) =>
            /\ last.sid \in Keys(cache)
            /\ \A k \in 1 .. Len(last.out) : last.out[k].key # last.sid)
    /\ [][\A call \in pending :
            store_commit(call) =>
              /\ call.session_id \in Keys(cache')
              /\ cache'[IndexOf(cache', call.session_id)].value = call.entry
              /\ \A k \in 1 .. Len(last'.out) :
                    LET found == BeforeEviction(cache, last'.out, k)
                        victim == last'.out[k]
                        i == IndexOf(found, victim.key)
                    IN /\ i # 0
                       /\ \A j \in 1 .. Len(found) :
                             victim.value.last_accessed
                                <= found[j].value.last_accessed
                       /\ \A j \in 1 .. (i - 1) :
                             found[j].value.last_accessed
                                > victim.value.last_accessed
         ]_vars

\* a store has evicted one of two sessions with the same last_accessed, the
\* one inserted first, and the other is still in the registry next to the
\* new one
C20_Witness ==
    /\ last.op = "store" /\ last.ok
    /\ Len(last.out) = 1
    /\ last.sid \in Keys(cache)
    /\ \E i \in 1 .. Len(cache) :
          /\ cache[i].key # last.sid
          /\ cache[i].key > last.out[1].key
          /\ cache[i].value.last_accessed = last.out[1].value.last_accessed

-----------------------------------------------------------------------------
(* Properties of the lock *)

InCriticalSection(t) == pc[t] \in InsideLock

\* C18: every statement that reads or writes the dict (store's eviction loop
\* and insert, get's lookup, lazy delete and touch, delete, the sweep's
\* collection and deletes, the three reads of get_stats) is inside `with
\* self._cache_lock`, and at most one thread is inside at any time: the lock
\* is held by exactly the thread that is inside, so a thread that is inside
\* meets no other thread between two of its statements; and the
\* active_sessions and total_size_bytes get_stats has read are those of the
\* dict as it is when get_stats returns.
C18_OneCriticalSection ==
    /\ \A t, u \in LockThreads :
          InCriticalSection(t) /\ InCriticalSection(u) => t = u
    /\ \A t \in LockThreads : InCriticalSection(t) <=> lock = t
    /\ \A t \in Threads :
          pc[t] = "stats_unlock" =>
              /\ frame[t].active_sessions = Len(cache)
              /\ frame[t].total_size_bytes = _get_total_size(cache)

\* a store is between its eviction and its insert, the one session there was
\* evicted, and get_stats and the sweep wait for the lock
C18_Witness ==
    \E t, u \in Threads :
        /\ pc[t] = "store_insert"
        /\ Cardinality(issued) = LockStores
        /\ cache = <<>>
        /\ pc[u] = "stats_lock"
        /\ pc[PdfCacheCleanup] = "sweep_lock"

\* last_accessed of the session in the dict
LastAccessed(c, session_id) == c[IndexOf(c, session_id)].value.last_accessed

\* C19: while a session is in the dict its last_accessed never decreases, it
\* changes only by the assignment of a get for that session, to the time that
\* get read inside the lock; and until that get leaves the lock it is the
\* time that get read.
C19_TouchesNotLost ==
    /\ [](\A t \in Threads :
            /\ pc[t] = "get_touch" =>
                  /\ frame[t].session_id \in Keys(cache)
                  /\ frame[t].now >= LastAccessed(cache, frame[t].session_id)
            /\ pc[t] = "get_unlock" /\ frame[t].entry # <<>> =>
                  /\ frame[t].session_id \in Keys(cache)
                  /\ LastAccessed(cache, frame[t].session_id) = frame[t].now)
    /\ [][\A s \in Keys(cache) \cap Keys(cache') :
            /\ LastAccessed(cache', s) >= LastAccessed(cache, s)
            /\ LastAccessed(cache', s) # LastAccessed(cache, s) =>
                  \E t \in Threads :
                      /\ pc[t] = "get_touch" /\ pc'[t] = "get_unlock"
                      /\ frame[t].session_id = s
                      /\ LastAccessed(cache', s) = frame[t].now]_vars

\* two gets of one session: the one called first still waits for the lock,
\* the one called later has written the later time it read inside
C19_Witness ==
    \E t, u \in Threads :
        /\ t # u
        /\ pc[t] = "get_unlock" /\ frame[t].entry # <<>>
        /\ pc[u] = "get_lock" /\ frame[u].session_id = frame[t].session_id
        /\ frame[u].called_at < frame[t].now
        /\ LastAccessed(cache, frame[t].session_id) = frame[t].now
        /\ frame[t].entry[1].created_at < frame[t].now

-----------------------------------------------------------------------------
(* Properties of the classifier: the index scan and the entry types *)

\* the pages _find_and_parse_index looks at
ScannedPages == 1 .. Min(IndexScanPages, Len(doc))

\* the least page of a set of pages
FirstOf(pages) == CHOOSE m \in pages : \A o \in pages : m <= o

\* C21 as stated: of the first min(5, total_pages) pages the first with an
\* index keyword is the only one parsed: a result by index has it for its
\* index_page, and when it yields no entry the method is not "index".
C21_FirstKeywordPageOnly ==
    LET keyword == { n \in ScannedPages : doc[n].is_index } IN
    cls_pc = "done" /\ keyword # {} =>
        IF doc[FirstOf(keyword)].names = <<>>
        THEN result.method_used # "index"
        ELSE result.method_used = "index"
             /\ result.index_page = FirstOf(keyword)

\* C21, amended: of the first min(5, total_pages) pages, those with an index
\* keyword are parsed in order until one yields an entry.  Tier 1 succeeds
\* exactly when there is such a page, index_page is the first of them, and a
\* page after the fifth is never the index page: when no page of the first
\* five has a keyword and an entry, the cascade moves on to tier 2.
C21_FirstPageWithEntries ==
    LET yielding == { n \in ScannedPages : doc[n].is_index /\ doc[n].names # <<>> }
    IN /\ cls_pc \in {"title", "visual"} => yielding = {}
       /\ cls_pc = "done" =>
             /\ result.method_used = "index" <=> yielding # {}
             /\ result.method_used = "index" =>
                   /\ result.index_page = FirstOf(yielding)
                   /\ result.index_page <= IndexScanPages

\* a document of six pages; page 1 has an index keyword and no entry, page 3
\* is the first with entries, page 6 is an index page too
C21_Witness ==
    /\ cls_pc = "done"
    /\ Len(doc) = ScanPages
    /\ doc[1].is_index /\ doc[1].names = <<>>
    /\ ~ doc[2].is_index
    /\ doc[3].names # <<>>
    /\ doc[ScanPages].names # <<>>
    /\ result.method_used = "index"
    /\ result.index_page = 3

\* the lists of the result a page is in
ListsOf(r, page) ==
    { l \in {"pid", "layout", "unknown"} :
        \E k \in 1 .. Len(r[l \o "_pages"]) : r[l \o "_pages"][k] = page }

\* C22: in a result by index, the page of an entry whose description has a
\* schematic keyword is in pid_pages whatever other keyword it has; without a
\* schematic keyword, a legend keyword puts the page in no list, with or
\* without a layout keyword; with neither, a layout keyword puts it in
\* layout_pages; a description with no keyword puts it in unknown_pages.
\* "STANDARD DETAIL" has a legend and a layout keyword and no schematic one.
C22_KeywordPriority ==
    /\ NameOf(StandardDetail) = Name(FALSE, TRUE, TRUE)
    /\ cls_pc = "done" /\ result.method_used = "index" =>
          LET names == doc[result.index_page].names IN
          \A k \in 1 .. Len(names) :
              LET page == result.index_page + k IN
              page <= Len(doc) =>
                  ListsOf(result, page) =
                      IF names[k].pid THEN {"pid"}
                      ELSE IF names[k].legend THEN {}
                      ELSE IF names[k].layout THEN {"layout"}
                      ELSE {"unknown"}

\* the index page is page 1 and lists IndexLines: page 2 is "STANDARD
\* DETAIL" and in no list, page 3 "SCHEMATIC LEGEND" and page 4 "P&ID LAYOUT"
\* are P&IDs
C22_Witness ==
    /\ cls_pc = "done" /\ result.method_used = "index"
    /\ result.index_page = 1
    /\ Len(doc[1].names) = Len(IndexLines)
    /\ doc[1].names[2] = Name(TRUE, TRUE, FALSE)
    /\ doc[1].names[3] = Name(TRUE, FALSE, TRUE)
    /\ Len(doc) >= 4
    /\ ListsOf(result, 2) = {}
    /\ result.pid_pages = <<3, 4>>

-----------------------------------------------------------------------------
(* Properties of the colour analysis *)

\* the brightest channel of a colour
Brightest(c) == Max3(c[1], c[2], c[3])

\* the sampled pixels of a rendering that count as colorful
ColorfulPixels(pix) ==
    { j \in SampledPixels(pix) :
        /\ Spread(PixelOf(pix, j)) > 50
        /\ 30 < Brightest(PixelOf(pix, j))
        /\ Brightest(PixelOf(pix, j)) < 230 }

\* the pages the colour analysis found colorful
ColorfulPages == Range(result.layout_pages)

\* C23: the colour analysis finds a page colorful exactly when it has sampled
\* pixels and more than 15% of them have max - min > 50 and 30 < max < 230.
\* At the limits: a page all in a colour with a spread of exactly 50, or with
\* a brightest channel of exactly 230, is not colorful, and one with a spread
\* of 51, or a brightest channel of 229, is; a page with exactly 3 of its 20
\* pixels colorful is not, and one with 4 of 20 is; a page with no pixel is
\* not.
C23_ColorfulnessRule ==
    (cls_pc = "done" /\ result.method_used = "visual") =>
        \A n \in 1 .. Len(doc) :
            LET pix == pixmaps[n]
                checked_count == Cardinality(SampledPixels(pix))
                colorful_count == Cardinality(ColorfulPixels(pix))
            IN /\ n \in ColorfulPages <=>
                     /\ checked_count > 0
                     /\ 100 * colorful_count > 15 * checked_count
               /\ pix \in { Pixmap(5, 4, 0, c, c, c) :
                              c \in {<<100, 50, 50>>, <<230, 100, 100>>} }
                     => n \notin ColorfulPages
               /\ pix \in { Pixmap(5, 4, 0, c, c, c) :
                              c \in {<<100, 49, 49>>, <<229, 100, 100>>} }
                     => n \in ColorfulPages
               /\ pix = Pixmap(5, 4, 3, <<100, 49, 49>>, Black, White)
                     => n \notin ColorfulPages
               /\ pix = Pixmap(5, 4, 4, <<100, 49, 49>>, Black, White)
                     => n \in ColorfulPages
               /\ pix.width * pix.height = 0 => n \notin ColorfulPages

\* a document of two pages: 3 of the 20 pixels of page 1 are colorful, 4 of
\* the 20 of page 2, and page 2 alone is found colorful
C23_Witness ==
    /\ cls_pc = "done" /\ result.method_used = "visual"
    /\ Len(doc) = 2
    /\ pixmaps[1] = Pixmap(5, 4, 3, <<229, 100, 100>>, Black, White)
    /\ pixmaps[2] = Pixmap(5, 4, 4, <<229, 100, 100>>, Black, White)
    /\ result.layout_pages = <<2>>
    /\ result.unknown_pages = <<1>>

\* the pages whose rendering failed
FailedPages == { n \in 1 .. Len(pixmaps) : pixmaps[n] = RenderError }

\* C24: when the colour analysis could not render a page, classify_pdf still
\* returns a result by method "visual": the page that failed is in
\* unknown_pages and every other page is in layout_pages or unknown_pages by
\* its colours.
C24_RenderFailureTolerated ==
    (cls_pc \in {"done", "raised"} /\ FailedPages # {}) =>
        /\ cls_pc = "done"
        /\ result.method_used = "visual"
        /\ \A n \in 1 .. Len(doc) :
              IF n \in FailedPages
              THEN n \in Range(result.unknown_pages)
              ELSE n \in Range(result.layout_pages) <=> is_colorful[pixmaps[n]]

-----------------------------------------------------------------------------
(* Properties of the construction *)

\* C25: however many times and from however many threads PdfCache() is
\* called, there is at most one object, every call that returns returns it
\* initialized, no call raises, and the object is initialized once: once the
\* import has completed, no call gives it a new dict or lock or starts a
\* cleanup thread, and the dict keeps what store put in it.
C25_OneInstanceInitializedOnce ==
    /\ [](/\ created <= 1 /\ registries <= 1 /\ started <= 1
          /\ \A t \in ConstructThreads :
                /\ ctor_pc[t] # "raised"
                /\ ctor_pc[t] = "done" =>
                      /\ _instance = "obj" /\ _initialized = "True"
                      /\ created = 1 /\ registries = 1 /\ started = 1)
    /\ [][ imported /\ constructions' = constructions
             /\ ctor_pc' # ctor_pc =>
               /\ cache' = cache /\ lock' = lock
               /\ created' = created
               /\ registries' = registries
               /\ started' = started ]_vars

\* after the import, with a session in the dict, one thread is about to
\* return from PdfCache() and another is at the test of line 58
C25_Witness ==
    /\ imported
    /\ cache # <<>>
    /\ \E t, u \in Threads :
          /\ ctor_pc[t] = "done"
          /\ ctor_pc[u] = "init_58"
    /\ constructions = MaxConstructions

-----------------------------------------------------------------------------
(* Properties of the lock: progress *)

\* C26: no thread waits for the lock it holds; the eviction loop of a store
\* that finds the dict empty is over, and the sweep deletes only keys that
\* are in the dict, each once, so a pass takes no more turns than the dict
\* has entries; and every call of store, get, delete and get_stats that was
\* made returns, with the lock released, while the cleanup thread goes on
\* making passes.
C26_CallsComplete ==
    /\ [](\A t \in LockThreads :
            /\ lock = t => pc[t] \notin DOMAIN FirstInside
            /\ pc[t] = "idle" => lock # t
            /\ pc[t] = "store_evict" /\ cache = <<>> =>
                  size_bytes(frame[t].entry[1]) <= MAX_CACHE_SIZE_BYTES
            /\ pc[t] = "sweep_delete" =>
                  LET todo == frame[t].expired_sessions IN
                  /\ Range(todo) \subseteq Keys(cache)
                  /\ Cardinality(Range(todo)) = Len(todo))
    /\ \A t \in Threads : (pc[t] # "idle") ~> (pc[t] = "idle" /\ lock # t)
    /\ []<>(pc[PdfCacheCleanup] = "sweep_unlock")

\* a store is in its eviction loop with an entry still to evict while the
\* other request thread and the cleanup thread wait for the lock
C26_Witness ==
    \E t, u \in Threads :
        /\ pc[t] = "store_evict"
        /\ cache # <<>>
        /\ _get_total_size(cache) + size_bytes(frame[t].entry[1])
              > MAX_CACHE_SIZE_BYTES
        /\ pc[u] \in DOMAIN FirstInside
        /\ pc[PdfCacheCleanup] = "sweep_lock"

\* C27: no logger.info call is made with the cache lock held: not by store
\* and its evictions, not by get, not by delete, not by the sweep.
C27_NoLogUnderLock ==
    \A t \in LockThreads : frame[t].logged = {}

-----------------------------------------------------------------------------
(* Properties of upload-and-classify *)

\* C29: when upload-and-classify answers with an error, the cache holds no
\* session that the call stored.
C29_UploadClassifyAllOrNothing ==
    [][ Stored /\ last'.op = "upload-and-classify" /\ ~ last'.ok
          => last.sid \notin Keys(cache') ]_vars

\* the entry of a session in the dict
EntryOf(c, session_id) == c[IndexOf(c, session_id)].value

\* C28: from one state to the next, an entry that stays in the dict keeps
\* its pdf_bytes, total_pages and created_at; its last_accessed changes only
\* when the step is a page fetch of that session that found it live; a fetch
\* or a delete of one session removes no other session; and the steps of
\* classify_pdf, whatever they find, leave the dict as it is.
C28_EntriesFramed ==
    [][ /\ \A s \in Keys(cache) \cap Keys(cache') :
             /\ EntryOf(cache', s).pdf_bytes = EntryOf(cache, s).pdf_bytes
             /\ EntryOf(cache', s).total_pages = EntryOf(cache, s).total_pages
             /\ EntryOf(cache', s).created_at = EntryOf(cache, s).created_at
             /\ EntryOf(cache', s).last_accessed # EntryOf(cache, s).last_accessed
                   => /\ last'.op = "page" /\ last'.sid = s
                      /\ last'.status # 404
        /\ last'.op \in {"page", "delete"} /\ last' # last
             => Keys(cache) \ {last'.sid} \subseteq Keys(cache')
        /\ cls_pc' # cls_pc => cache' = cache ]_vars

\* two sessions are in the dict; the page route has just fetched a page of
\* the one stored first, which is now the one accessed last
C28_Witness ==
    /\ Len(cache) = 2
    /\ last.op = "page" /\ last.status = 200
    /\ last.sid = cache[1].key
    /\ cache[1].value.last_accessed > cache[1].value.created_at
    /\ cache[1].value.last_accessed > cache[2].value.last_accessed

-----------------------------------------------------------------------------
(* Properties of the lock: the order of the timestamps *)

\* C30: the insert of a store and the touch of a get write a last_accessed
\* that is no earlier than that of any entry in the dict, all of which were
\* inserted or touched by operations that had the lock before.
C30_StampsFollowLockOrder ==
    [][ \A t \in Threads :
          pc[t] \in {"store_insert", "get_touch"} /\ pc'[t] # pc[t] =>
              \A k \in 1 .. Len(cache) :
                  cache[k].value.last_accessed
                      <= EntryOf(cache', frame[t].session_id).last_accessed ]_vars

====
